---- MODULE Spec2Model ----
(***************************************************************************)
(* A model of the xpather XPath engine: the DOM adapter (value.rs), the    *)
(* axis walker (context.rs), the expression evaluator (expressions.rs),    *)
(* the function library (functions.rs), the Tokenizer (parser.rs) and the  *)
(* abbreviation expansion, the parser and the result iterator              *)
(* (factory.rs).                                                           *)
(***************************************************************************)
EXTENDS Integers, Sequences, FiniteSets, TLC

VARIABLES
    doc,        \* the document: the DOM the engine reads
    mode,       \* which subsystem this behaviour exercises
    \* -- axis walker (context.rs)
    axis,       \* axis of the step being walked
    test,       \* node test of the step being walked
    start,      \* context node the walk started from
    searches,   \* live NodeSearchState records, one NodeSearch each
    emitted,    \* nodes reported Found so far, in emission order
    last,       \* the last NodeSearchState::find_next_node call and its result
    cached,     \* NodeSearch.cached: the result held one call ahead, or NoResult
    calls,      \* what the NodeSearch::find_next_node calls returned, in order
    handed,     \* what the find_and_cache_next_node calls returned, in order
    \* -- result iterator and expression evaluator (factory.rs, expressions.rs)
    expr,       \* ProduceIter.expr: the compiled expression
    est,        \* the mutable state of expr (Path caches)
    ctxnode,    \* ProduceIter.eval.node: the node the evaluation started from
    polls,      \* the ProduceIter::next calls made, counted 1..MaxPolls and round again
    outcome,    \* what expr.next_eval returned inside the last next call
    returned,   \* what the last ProduceIter::next call returned
    yielded,    \* the values ProduceIter::next has returned, the first MaxPolls
    predLog,    \* the predicate evaluations of the last walk of the steps
    ended,      \* a next call has returned None
    \* -- abbreviation expansion (factory.rs)
    tokenizer,  \* what the Tokenizer will still return, in order
    token_steps,\* Factory.token_steps: the parser's token buffer
    error,      \* Factory.error
    drained,    \* the tokens taken from the tokenizer so far
    produced    \* what Factory::produce returned: "Ok", or the error

walkVars == <<axis, test, start, searches, emitted, last, cached, calls, handed>>
evalVars == <<expr, est, ctxnode, polls, outcome, returned, yielded, predLog, ended>>
tokVars == <<tokenizer, token_steps, error, drained, produced>>
vars == <<doc, mode, walkVars, evalVars, tokVars>>

----------------------------------------------------------------------------
(* Bounds *)

\* number of DOM nodes below the document node
MaxNodes == 3

\* number of values of ProduceIter::next that are kept, and the round of the
\* count of its calls
MaxPolls == 4

\* number of items the Tokenizer returns for a query
MaxTokens == 3

\* number of pieces a query given to the Tokenizer is written with
MaxPieces == 5

----------------------------------------------------------------------------
(* Small helpers *)

RECURSIVE Reverse(_)
Reverse(s) == IF s = <<>> THEN <<>> ELSE Append(Reverse(Tail(s)), Head(s))

Front(s) == SubSeq(s, 1, Len(s) - 1)
Last(s) == s[Len(s)]

Range(s) == {s[i] : i \in 1..Len(s)}

NoDup(s) == \A i, j \in 1..Len(s) : i # j => s[i] # s[j]

\* ascending sequence of a finite set of integers
RECURSIVE SortedSeq(_)
SortedSeq(S) ==
    IF S = {} THEN <<>>
    ELSE LET m == CHOOSE x \in S : \A y \in S : x <= y
         IN <<m>> \o SortedSeq(S \ {m})

----------------------------------------------------------------------------
(* The DOM (markup5ever_rcdom), as value.rs reads it.                      *)
(* Entry 0 is the Document; entries are numbered in document order         *)
(* (pre-order), so an entry's children are the entries naming it as parent *)
(* in ascending order.                                                     *)

\* NodeData of the entries below the Document: two element names and text
DomKinds == {"a", "b", "text"}

IsElementKind(k) == k \in {"a", "b"}

\* attributes an element of that name carries, in source order:
\* every <a> has class and id, a <b> has none
AttrsOfKind(k) == IF k = "a" THEN <<"class", "id">> ELSE <<>>

\* parent arrays that number the entries in pre-order: the parent of entry i
\* is entry i-1 or one of its ancestors, and is the Document or an element
RECURSIVE AncestorsOrSelfOf(_, _)
AncestorsOrSelfOf(par, i) ==
    IF i = 0 THEN {0} ELSE {i} \cup AncestorsOrSelfOf(par, par[i])

WellFormed(n, par, kind) ==
    \A i \in 1..n :
        /\ par[i] < i
        /\ par[i] \in AncestorsOrSelfOf(par, i - 1)
        /\ par[i] # 0 => IsElementKind(kind[par[i]])

DocsOfSize(n) ==
    {[n |-> n, parent |-> par, kind |-> kind] :
        <<par, kind>> \in {pk \in [1..n -> 0..(n - 1)] \X [1..n -> DomKinds] :
                              WellFormed(n, pk[1], pk[2])}}

Docs == UNION {DocsOfSize(n) : n \in 1..MaxNodes}

DomChildren(d, i) == SortedSeq({c \in 1..d.n : d.parent[c] = i})

DomIsElement(d, i) == i # 0 /\ IsElementKind(d.kind[i])

----------------------------------------------------------------------------
(* value.rs: enum Node.  A Node is a variant tag and the DOM entry its     *)
(* handle points to; an Attribute holds its owner's handle and the         *)
(* attribute (attr: index into the owner's attribute list).                *)

NoNode == [tag |-> "None", id |-> 0, attr |-> 0]

MkNode(tag, i) == [tag |-> tag, id |-> i, attr |-> 0]
MkAttr(i, k) == [tag |-> "Attribute", id |-> i, attr |-> k]

\* impl From<NodeHandle> / From<&NodeHandle> for Node: the variant of the data
FromHandle(d, i) ==
    IF i = 0 THEN MkNode("Root", 0)
    ELSE IF d.kind[i] = "text" THEN MkNode("Text", i)
    ELSE MkNode("Element", i)

\* Node::is_root
IsRoot(n) == n.tag = "Root"

\* Node::parent: the DOM parent of the handle, wrapped in the variant of the
\* node it was asked of; an Attribute's handle is its owner element
NodeParent(d, n) ==
    IF n.tag \in {"Root", "DocType", "Namespace", "None"} THEN NoNode
    ELSE IF n.id = 0 THEN NoNode
    ELSE IF n.tag = "Attribute" THEN MkNode("Element", d.parent[n.id])
    ELSE MkNode(n.tag, d.parent[n.id])

\* Node::get_child, for the variants that have one (Root, Text, Comment,
\* DocType, Element)
NodeGetChild(d, n, index) ==
    LET ch == DomChildren(d, n.id)
    IN IF index + 1 <= Len(ch) THEN FromHandle(d, ch[index + 1]) ELSE NoNode

\* Node::name: the QualName of an Element whose data is an element
NodeName(d, n) ==
    IF n.tag = "Element" /\ DomIsElement(d, n.id) THEN d.kind[n.id]
    ELSE IF n.tag = "Attribute" /\ DomIsElement(d, n.id) THEN d.kind[n.id]
    ELSE "none"

\* Attribute::from_node: the attributes of an element entry, None otherwise
AttributeFromNode(d, i) ==
    IF DomIsElement(d, i)
    THEN [some |-> TRUE,
          attrs |-> [k \in 1..Len(AttrsOfKind(d.kind[i])) |-> MkAttr(i, k)]]
    ELSE [some |-> FALSE, attrs |-> <<>>]

\* Node::inner_weak: the handle compared and searched by; none for Root
HasInnerWeak(n) == n.tag \notin {"Root", "None"}

\* find_nodes_from_parent: the siblings of the node's handle whose index
\* satisfies the capture, in document order
FindNodesFromParent(d, n, following) ==
    IF ~HasInnerWeak(n) \/ n.id = 0 THEN <<>>
    ELSE LET sibs == DomChildren(d, d.parent[n.id])
             keep == {c \in Range(sibs) : IF following THEN c > n.id ELSE c < n.id}
             ord  == SortedSeq(keep)
         IN [k \in 1..Len(ord) |-> FromHandle(d, ord[k])]

following_nodes_from_parent(d, n) == FindNodesFromParent(d, n, TRUE)
preceding_nodes_from_parent(d, n) == FindNodesFromParent(d, n, FALSE)

----------------------------------------------------------------------------
(* nodetest.rs: the node tests, decided on the variant of the Node *)

NodeTests == {[type |-> "node", name |-> "*"],
              [type |-> "text", name |-> "*"],
              [type |-> "element", name |-> "*"],
              [type |-> "element", name |-> "a"],
              [type |-> "attribute", name |-> "*"]}

\* NameTest::is_match
NameIsMatch(local_part, qname) == local_part = "*" \/ local_part = qname

AttrName(d, n) == AttrsOfKind(d.kind[n.id])[n.attr]

NodeTestPasses(d, t, n) ==
    CASE t.type = "node" -> TRUE
      [] t.type = "text" -> n.tag = "Text"
      [] t.type = "element" -> n.tag = "Element" /\ NameIsMatch(t.name, NodeName(d, n))
      [] t.type = "attribute" -> n.tag = "Attribute" /\ NameIsMatch(t.name, AttrName(d, n))
      [] OTHER -> FALSE

----------------------------------------------------------------------------
(* context.rs: NodeSearchState, the incremental producer of one axis *)

\* the axes a step can be walked on (AxisName::Namespace is unimplemented!)
Axes == {"Ancestor", "AncestorOrSelf", "Attribute", "Child", "Descendant",
         "DescendantOrSelf", "Following", "FollowingSibling", "Parent",
         "Preceding", "PrecedingSibling", "SelfAxis"}

NoCache == [some |-> FALSE, nodes |-> <<>>]

\* NodeSearchState::new
NewState(step_index, axis_name, node) ==
    [step_index |-> step_index, axis_name |-> axis_name, node |-> node,
     offset |-> 0, found_count |-> 0, cached_nodes |-> NoCache]

\* what find_next_node returns, with the state as the call leaves it
Answer(res, node, hasStates, states, st) ==
    [res |-> res, node |-> node, hasStates |-> hasStates, states |-> states, st |-> st]

AnswerNo(st) == Answer("No", NoNode, FALSE, <<>>, st)

\* "Get or Create a cache of Nodes": the list reversed, popped from its end
CacheOf(s, fresh) ==
    IF s.cached_nodes.some THEN s.cached_nodes.nodes ELSE Reverse(fresh)

WithCache(s, nodes) == [s EXCEPT !.cached_nodes = [some |-> TRUE, nodes |-> nodes]]

FindAncestor(d, s, t) ==
    LET parent == NodeParent(d, s.node)
    IN IF parent # NoNode /\ NodeTestPasses(d, t, parent)
       THEN IF IsRoot(parent)
            THEN Answer("Found", parent, FALSE, <<>>, s)
            ELSE Answer("Found", parent, TRUE,
                        <<NewState(s.step_index, "Ancestor", parent)>>, s)
       ELSE AnswerNo(s)

FindAncestorOrSelf(d, s, t) ==
    Answer("No", NoNode, TRUE,
           <<NewState(s.step_index, "Ancestor", s.node),
             NewState(s.step_index, "SelfAxis", s.node)>>, s)

\* pops attributes until one passes the test
RECURSIVE PopUntilPasses(_, _, _)
PopUntilPasses(d, t, nodes) ==
    IF nodes = <<>> THEN [node |-> NoNode, rest |-> <<>>]
    ELSE IF NodeTestPasses(d, t, Last(nodes))
         THEN [node |-> Last(nodes), rest |-> Front(nodes)]
         ELSE PopUntilPasses(d, t, Front(nodes))

FindAttribute(d, s, t) ==
    IF s.node.tag # "Element" THEN AnswerNo(s)
    ELSE LET attrs == AttributeFromNode(d, s.node.id)
         IN IF ~s.cached_nodes.some /\ ~attrs.some THEN AnswerNo(s)
            ELSE LET popped == PopUntilPasses(d, t, CacheOf(s, attrs.attrs))
                     st     == WithCache(s, popped.rest)
                 IN IF popped.node # NoNode
                    THEN Answer("Found", popped.node, FALSE, <<>>, st)
                    ELSE AnswerNo(st)

FindChild(d, s, t) ==
    LET child == NodeGetChild(d, s.node, s.offset)
        st    == [s EXCEPT !.offset = s.offset + 1]
    IN IF child = NoNode THEN AnswerNo(s)
       ELSE IF NodeTestPasses(d, t, child)
            THEN Answer("Found", child, FALSE, <<>>, st)
            ELSE Answer("Possible", NoNode, FALSE, <<>>, st)

FindDescendant(d, s, t) ==
    LET child == NodeGetChild(d, s.node, s.offset)
        st    == [s EXCEPT !.offset = s.offset + 1]
    IN IF child = NoNode THEN AnswerNo(s)
       ELSE IF NodeTestPasses(d, t, child)
            THEN Answer("Found", child, TRUE,
                        <<NewState(s.step_index, "Descendant", child)>>, st)
            ELSE AnswerNo(st)

FindDescendantOrSelf(d, s, t) ==
    Answer("No", NoNode, TRUE,
           <<NewState(s.step_index, "Descendant", s.node),
             NewState(s.step_index, "SelfAxis", s.node)>>, s)

\* Following and Preceding: one sibling popped per call becomes a
\* DescendantOrSelf state, the parent a state of the same axis
FindAcross(d, s, t, fresh, axis_name) ==
    LET nodes  == CacheOf(s, fresh)
        popped == IF nodes = <<>> THEN <<>>
                  ELSE <<NewState(s.step_index, "DescendantOrSelf", Last(nodes))>>
        rest   == IF nodes = <<>> THEN <<>> ELSE Front(nodes)
        parent == NodeParent(d, s.node)
        up     == IF parent = NoNode THEN <<>>
                  ELSE <<NewState(s.step_index, axis_name, parent)>>
    IN Answer("No", NoNode, TRUE, popped \o up, WithCache(s, rest))

FindFollowing(d, s, t) ==
    FindAcross(d, s, t, following_nodes_from_parent(d, s.node), "Following")

FindPreceding(d, s, t) ==
    FindAcross(d, s, t, preceding_nodes_from_parent(d, s.node), "Preceding")

\* FollowingSibling and PrecedingSibling: pop one sibling per call
FindSibling(d, s, t, fresh) ==
    LET nodes == CacheOf(s, fresh)
    IN IF nodes # <<>>
       THEN Answer("Found", Last(nodes), FALSE, <<>>, WithCache(s, Front(nodes)))
       ELSE AnswerNo(WithCache(s, nodes))

FindFollowingSibling(d, s, t) ==
    FindSibling(d, s, t, following_nodes_from_parent(d, s.node))

FindPrecedingSibling(d, s, t) ==
    FindSibling(d, s, t, preceding_nodes_from_parent(d, s.node))

FindParent(d, s, t) ==
    LET node == NodeParent(d, s.node)
    IN IF s.offset = 0 /\ node # NoNode
       THEN Answer("Found", node, FALSE, <<>>, [s EXCEPT !.offset = 1])
       ELSE AnswerNo(s)

\* eval.node is the node of the state's own NodeSearch
\* (find_and_cache_next_node builds the evaluation from self.state.node)
FindSelf(d, s, t) ==
    IF s.offset = 0 /\ NodeTestPasses(d, t, s.node)
    THEN Answer("Found", s.node, FALSE, <<>>, [s EXCEPT !.offset = 1])
    ELSE AnswerNo(s)

\* NodeSearchState::find_next_node
FindNextNode(d, s, t) ==
    CASE s.axis_name = "Ancestor"         -> FindAncestor(d, s, t)
      [] s.axis_name = "AncestorOrSelf"   -> FindAncestorOrSelf(d, s, t)
      [] s.axis_name = "Attribute"        -> FindAttribute(d, s, t)
      [] s.axis_name = "Child"            -> FindChild(d, s, t)
      [] s.axis_name = "Descendant"       -> FindDescendant(d, s, t)
      [] s.axis_name = "DescendantOrSelf" -> FindDescendantOrSelf(d, s, t)
      [] s.axis_name = "Following"        -> FindFollowing(d, s, t)
      [] s.axis_name = "FollowingSibling" -> FindFollowingSibling(d, s, t)
      [] s.axis_name = "Parent"           -> FindParent(d, s, t)
      [] s.axis_name = "Preceding"        -> FindPreceding(d, s, t)
      [] s.axis_name = "PrecedingSibling" -> FindPrecedingSibling(d, s, t)
      [] s.axis_name = "SelfAxis"         -> FindSelf(d, s, t)

\* MoreNodes::has_more
HasMore(res) == res \in {"Found", "Possible"}

----------------------------------------------------------------------------
(* The walk of one step: every live NodeSearchState is the base state of   *)
(* a NodeSearch over a one-step path.  NodeSearch::find_next_node polls    *)
(* the base state, counts a Found node, hands the new states on as new     *)
(* searches, and a search whose answer is No is finished.                  *)

\* nodes a walk can start from: the DOM nodes and the attributes of elements
DomNodes(d) == {FromHandle(d, i) : i \in 0..d.n}

AttrNodes(d) ==
    UNION {Range(AttributeFromNode(d, i).attrs) : i \in 1..d.n}

\* Node::get_child is unimplemented! for an Attribute
StartNodes(d, ax) ==
    IF ax \in {"Child", "Descendant", "DescendantOrSelf"}
    THEN DomNodes(d) ELSE DomNodes(d) \cup AttrNodes(d)

\* NodeSearch.cached when it is None
NoResult == [res |-> "None", node |-> NoNode, states |-> <<>>]

NoCall == [called |-> FALSE, axis_name |-> "none", from |-> NoNode,
           res |-> "No", node |-> NoNode]

\* NodeSearch::find_next_node, one-step path: base_state.found_count += 1
SearchAfter(ans) ==
    IF ans.res = "Found"
    THEN [ans.st EXCEPT !.found_count = ans.st.found_count + 1]
    ELSE ans.st

RemoveAt(s, i) == SubSeq(s, 1, i - 1) \o SubSeq(s, i + 1, Len(s))

\* the walker at rest, in the behaviours of the other subsystems
IdleWalk ==
    /\ axis = "SelfAxis"
    /\ test = [type |-> "node", name |-> "*"]
    /\ start = NoNode
    /\ searches = <<>>
    /\ emitted = <<>>
    /\ last = NoCall
    /\ cached = NoResult
    /\ calls = <<>>
    /\ handed = <<>>

\* the result iterator at rest
IdleEval ==
    /\ expr = "none"
    /\ est = "none"
    /\ ctxnode = NoNode
    /\ polls = 0
    /\ outcome = "none"
    /\ returned = "none"
    /\ yielded = <<>>
    /\ predLog = <<>>
    /\ ended = FALSE

\* the factory at rest
IdleTok ==
    /\ tokenizer = <<>>
    /\ token_steps = <<>>
    /\ error = "None"
    /\ drained = <<>>
    /\ produced = "None"

InitWalk ==
    /\ mode = "walk"
    /\ doc \in Docs
    /\ axis \in Axes
    /\ test \in NodeTests
    /\ start \in StartNodes(doc, axis)
    /\ searches = <<NewState(0, axis, start)>>
    /\ emitted = <<>>
    /\ last = NoCall
    /\ cached = NoResult
    /\ calls = <<>>
    /\ handed = <<>>
    /\ IdleEval
    /\ IdleTok

\* one find_next_node call on the i-th live search
Poll(i) ==
    /\ mode = "walk"
    /\ i \in 1..Len(searches)
    /\ Len(emitted) <= MaxNodes
    /\ LET ans  == FindNextNode(doc, searches[i], test)
           kept == IF HasMore(ans.res)
                   THEN [searches EXCEPT ![i] = SearchAfter(ans)]
                   ELSE RemoveAt(searches, i)
       IN /\ searches' = kept \o ans.states
          /\ emitted' = IF ans.res = "Found" THEN Append(emitted, ans.node)
                        ELSE emitted
          /\ last' = [called |-> TRUE, axis_name |-> searches[i].axis_name,
                      from |-> searches[i].node, res |-> ans.res, node |-> ans.node]
    /\ UNCHANGED <<doc, mode, axis, test, start, cached, calls, handed, evalVars, tokVars>>

NextWalk == \E i \in 1..Len(searches) : Poll(i)

SpecWalk == InitWalk /\ [][NextWalk]_vars

\* the walk is over: every search answered No
WalkDone == mode = "walk" /\ searches = <<>>

\* number of find_and_cache_next_node calls that are followed
MaxCalls == 4

\* Step::evaluate on a found node, as the call site takes it: the node, or
\* an error that `?` hands to the caller
StepVerdicts == {"Found", "Err"}

\* NodeSearch::find_next_node on a path of one step: (MoreNodes, new states)
\* or the error of the step, and the search afterwards
NodeSearchFindNextNode(d, s, t, verdict) ==
    LET ans == FindNextNode(d, s, t)
    IN IF ans.res = "Found" /\ verdict = "Err"
       THEN [result |-> [res |-> "Err", node |-> NoNode, states |-> <<>>],
             state |-> SearchAfter(ans)]
       ELSE [result |-> [res |-> ans.res, node |-> ans.node, states |-> ans.states],
             state |-> SearchAfter(ans)]

\* NodeSearch::is_finished
NodeSearchIsFinished == cached.res = "No"

InitCache ==
    /\ mode = "cache"
    /\ doc \in Docs
    /\ axis \in Axes
    /\ test \in NodeTests
    /\ start \in StartNodes(doc, axis)
    /\ searches = <<NewState(0, axis, start)>>
    /\ emitted = <<>>
    /\ last = NoCall
    /\ cached = NoResult
    /\ calls = <<>>
    /\ handed = <<>>
    /\ IdleEval
    /\ IdleTok

\* one find_and_cache_next_node call
find_and_cache_next_node ==
    /\ mode = "cache"
    /\ Len(handed) < MaxCalls
    /\ \E v1, v2 \in StepVerdicts :
       LET first  == IF cached.res = "None"
                     THEN NodeSearchFindNextNode(doc, searches[1], test, v1)
                     ELSE [result |-> cached, state |-> searches[1]]
           filled == cached.res = "None"
           next   == NodeSearchFindNextNode(doc, first.state, test, v2)
       IN IF filled /\ first.result.res = "Err"
          THEN /\ searches' = <<first.state>>
               /\ calls' = Append(calls, first.result)
               /\ cached' = cached
               /\ handed' = Append(handed, first.result)
          ELSE /\ searches' = <<next.state>>
               /\ calls' = IF filled THEN calls \o <<first.result, next.result>>
                           ELSE Append(calls, next.result)
               /\ cached' = IF next.result.res = "Err" THEN first.result ELSE next.result
               /\ handed' = Append(handed, IF next.result.res = "Err" THEN next.result
                                           ELSE first.result)
    /\ UNCHANGED <<doc, mode, axis, test, start, emitted, last, evalVars, tokVars>>

NextCache == find_and_cache_next_node

SpecCache == InitCache /\ [][NextCache]_vars

----------------------------------------------------------------------------
(* value.rs: enum Value.  A Number is kept in halves (h = 3 is 1.5) or is  *)
(* NaN, so that floor and the `as usize` cast differ from the identity.    *)

NumV(h) == [type |-> "Number", nan |-> FALSE, h |-> h, s |-> "", b |-> FALSE, node |-> NoNode]
NaNV == [type |-> "Number", nan |-> TRUE, h |-> 0, s |-> "", b |-> FALSE, node |-> NoNode]
StrV(s) == [type |-> "String", nan |-> FALSE, h |-> 0, s |-> s, b |-> FALSE, node |-> NoNode]
BoolV(b) == [type |-> "Boolean", nan |-> FALSE, h |-> 0, s |-> "", b |-> b, node |-> NoNode]
NodeV(n) == [type |-> "Node", nan |-> FALSE, h |-> 0, s |-> "", b |-> FALSE, node |-> n]
NoValue == [type |-> "None", nan |-> FALSE, h |-> 0, s |-> "", b |-> FALSE, node |-> NoNode]

\* Result<Option<Value>>: Ok(Some(v)), Ok(None) or Err(e)
OkSome(v) == [kind |-> "Some", value |-> v, err |-> "none"]
OkNone == [kind |-> "None", value |-> NoValue, err |-> "none"]
Err(e) == [kind |-> "Err", value |-> NoValue, err |-> e]

\* usize counters as f64 (position() and last())
UsizeAsNumber(k) == NumV(2 * k)

\* `v as usize` for an f64: NaN and negatives give 0, the fraction is dropped
AsUsize(v) == IF v.nan \/ v.h < 0 THEN 0 ELSE v.h \div 2

\* Value::is_something
is_something(v) ==
    CASE v.type = "Boolean" -> v.b
      [] v.type = "Number" -> ~v.nan
      [] v.type = "String" -> v.s # ""
      [] v.type = "Node" -> TRUE
      [] OTHER -> FALSE

\* Value::into_node
into_node(v) == IF v.type = "Node" THEN OkSome(v) ELSE Err("InvalidValue(Nodeset)")

\* Node::get_string_value, through Node::value: the text of a Text node and
\* the value of an Attribute; the other variants have none
get_string_value(d, n) ==
    CASE n.tag = "Text" /\ n.id # 0 /\ d.kind[n.id] = "text" -> OkSome(StrV("t"))
      [] n.tag = "Attribute" -> OkSome(StrV(AttrName(d, n)))
      [] n.tag = "Text" -> Err("NodeDidNotContainText")
      [] OTHER -> Err("CannotConvertNodeToValue")

\* Value::boolean: a Boolean, or the Number 0 or 1; any other value is refused
boolean(v) ==
    CASE v.type = "Boolean" -> OkSome(BoolV(v.b))
      [] v.type = "Number" /\ ~v.nan /\ v.h = 0 -> OkSome(BoolV(FALSE))
      [] v.type = "Number" /\ ~v.nan /\ v.h = 2 -> OkSome(BoolV(TRUE))
      [] OTHER -> Err("InvalidValue(Boolean)")

\* Value::number: a Number, or a Boolean as 1 or 0; any other value is refused
number(v) ==
    CASE v.type = "Boolean" -> OkSome(IF v.b THEN NumV(2) ELSE NumV(0))
      [] v.type = "Number" -> OkSome(v)
      [] OTHER -> Err("InvalidValue(Number)")

\* f64::to_string of a Number kept in halves: "2", "-2", "1.5", "NaN"
RECURSIVE F64ToString(_)
F64ToString(v) ==
    LET digit == <<"0", "1", "2", "3", "4", "5", "6", "7", "8", "9">>
        whole == (IF v.h < 0 THEN 0 - v.h ELSE v.h) \div 2
    IN IF v.nan THEN "NaN"
       ELSE IF v.h < 0 THEN "-" \o F64ToString(NumV(0 - v.h))
       ELSE IF whole >= 10
            THEN F64ToString(NumV(2 * (whole \div 10))) \o F64ToString(NumV(2 * (whole % 10) + (v.h % 2)))
       ELSE digit[whole + 1] \o (IF v.h % 2 = 1 THEN ".5" ELSE "")

\* Value::convert_to_string
convert_to_string(d, v) ==
    CASE v.type = "Boolean" -> OkSome(StrV(""))
      [] v.type = "Number" -> OkSome(StrV(F64ToString(v)))
      [] v.type = "String" -> OkSome(v)
      [] OTHER -> get_string_value(d, v.node)

----------------------------------------------------------------------------
(* Evaluation::find_nodes, which Step::evaluate calls: the nodes of an     *)
(* axis from a context node that pass the node test, in axis order.        *)

\* position of a node in document order: an element, then its attributes,
\* then its children
DocOrderKey(n) == n.id * 4 + n.attr

DescendantIds(d, i) == {j \in 1..d.n : j # i /\ i \in AncestorsOrSelfOf(d.parent, j)}

\* the entry an axis starts from and the entry above it (an attribute's
\* parent is its owner element)
AboveIds(d, n) ==
    IF n.tag = "Attribute" THEN AncestorsOrSelfOf(d.parent, n.id)
    ELSE AncestorsOrSelfOf(d.parent, n.id) \ {n.id}

IdsToNodes(d, ids) == [k \in 1..Len(ids) |-> FromHandle(d, ids[k])]

AxisNodes(d, n, axis_name) ==
    LET i == n.id
        isAttr == n.tag = "Attribute"
        sibs == IF isAttr \/ i = 0 THEN {} ELSE Range(DomChildren(d, d.parent[i]))
        up == Reverse(SortedSeq(AboveIds(d, n)))
        down == SortedSeq(DescendantIds(d, i))
    IN CASE axis_name = "SelfAxis" -> <<n>>
         [] axis_name = "Child" -> IF isAttr THEN <<>> ELSE IdsToNodes(d, DomChildren(d, i))
         [] axis_name = "Parent" -> IF up = <<>> THEN <<>> ELSE <<FromHandle(d, up[1])>>
         [] axis_name = "Attribute" ->
                IF isAttr THEN <<>> ELSE AttributeFromNode(d, i).attrs
         [] axis_name = "Descendant" -> IF isAttr THEN <<>> ELSE IdsToNodes(d, down)
         [] axis_name = "DescendantOrSelf" ->
                <<n>> \o (IF isAttr THEN <<>> ELSE IdsToNodes(d, down))
         [] axis_name = "Ancestor" -> IdsToNodes(d, up)
         [] axis_name = "AncestorOrSelf" -> <<n>> \o IdsToNodes(d, up)
         [] axis_name = "FollowingSibling" ->
                IdsToNodes(d, SortedSeq({c \in sibs : c > i}))
         [] axis_name = "PrecedingSibling" ->
                IdsToNodes(d, Reverse(SortedSeq({c \in sibs : c < i})))
         [] axis_name = "Following" ->
                IdsToNodes(d, SortedSeq({j \in 1..d.n :
                    j > i /\ (isAttr \/ j \notin DescendantIds(d, i))}))
         [] axis_name = "Preceding" ->
                IdsToNodes(d, Reverse(SortedSeq({j \in 1..d.n :
                    j < i /\ j \notin AncestorsOrSelfOf(d.parent, i)})))
         [] OTHER -> <<>>

find_nodes(d, n, axis_name, node_test) ==
    LET Passes(c) == NodeTestPasses(d, node_test, c)
    IN SelectSeq(AxisNodes(d, n, axis_name), Passes)

----------------------------------------------------------------------------
(* expressions.rs: the expression tree.  An expression is a record; the    *)
(* operand lists (args, start_pos, steps, predicates) are sequences.       *)

MkLiteral(v) ==
    [e |-> "Literal", value |-> v, name |-> "", args |-> <<>>, start_pos |-> <<>>, steps |-> <<>>]
MkRootNode ==
    [e |-> "RootNode", value |-> NoValue, name |-> "", args |-> <<>>, start_pos |-> <<>>, steps |-> <<>>]
MkContextNode ==
    [e |-> "ContextNode", value |-> NoValue, name |-> "", args |-> <<>>, start_pos |-> <<>>, steps |-> <<>>]
MkFunction(name, args) ==
    [e |-> "Function", value |-> NoValue, name |-> name, args |-> args, start_pos |-> <<>>, steps |-> <<>>]
\* Addition::new, Subtraction::new, LessThan::new, ..., And::new, Or::new: the
\* struct is named by e and holds left and right under args
MkBinary(op, left, right) ==
    [e |-> op, value |-> NoValue, name |-> "", args |-> <<left, right>>, start_pos |-> <<>>, steps |-> <<>>]
\* Union::new: left and right under args; skip_left is part of the state
MkUnion(left, right) ==
    [e |-> "Union", value |-> NoValue, name |-> "", args |-> <<left, right>>, start_pos |-> <<>>, steps |-> <<>>]
\* Path::new
MkPath(start_pos, steps) ==
    [e |-> "Path", value |-> NoValue, name |-> "", args |-> <<>>, start_pos |-> <<start_pos>>, steps |-> steps]
\* Step::new
MkStep(axis_name, node_test, predicates) ==
    [axis |-> axis_name, node_test |-> node_test, predicates |-> predicates]

\* the mutable part of an expression: a Path's found_cache and cached_from,
\* under sub the states of the predicates of its steps, and under ops the
\* states of left and right
RECURSIVE NewExprState(_)
NewExprState(x) ==
    [some |-> FALSE, nodes |-> <<>>, cached_from |-> NoNode, skip_left |-> FALSE,
     sub |-> [i \in 1..Len(x.steps) |->
                [j \in 1..Len(x.steps[i].predicates) |->
                    NewExprState(x.steps[i].predicates[j])]],
     ops |-> [k \in 1..Len(x.args) |-> NewExprState(x.args[k])]]

\* impl PartialEq for Node: Root equals Root, the others compare handles
NodeEq(left, right) ==
    IF IsRoot(left) \/ IsRoot(right) THEN IsRoot(left) = IsRoot(right)
    ELSE HasInnerWeak(left) /\ HasInnerWeak(right) /\ left.id = right.id

\* impl PartialEq for Value: like with like; a Node and a String are equal
\* when the String is the Node's Debug text, the value of the Attribute or
\* the contents of the Text; everything else differs
ValueEq(d, left, right) ==
    LET node == IF left.type = "Node" THEN left.node ELSE right.node
        value == IF left.type = "Node" THEN right.s ELSE left.s
        debug == CASE node.tag = "Root" -> "Root(Document)"
                   [] node.tag = "Attribute" -> "Attribute(Element)"
                   [] OTHER -> "Node(" \o node.tag \o ")"
    IN CASE left.type = "Number" /\ right.type = "Number" ->
                ~left.nan /\ ~right.nan /\ left.h = right.h
         [] left.type = "Boolean" /\ right.type = "Boolean" -> left.b = right.b
         [] left.type = "String" /\ right.type = "String" -> left.s = right.s
         [] left.type = "Node" /\ right.type = "Node" -> NodeEq(left.node, right.node)
         [] {left.type, right.type} = {"Node", "String"} ->
                \/ debug = value
                \/ node.tag = "Attribute" /\ AttrName(d, node) = value
                \/ node.tag = "Text" /\ node.id # 0 /\ d.kind[node.id] = "text" /\ "t" = value
         [] OTHER -> FALSE

\* an operand without a value makes every operator false
res_opt_def_false(op) == BoolV(FALSE)

\* res_opt_def_NAN! and res_opt_def_false!: what an operator returns when an
\* operand yields no value
res_opt_def(op) ==
    IF op \in {"Addition", "Subtraction"} THEN NaNV ELSE BoolV(FALSE)

\* the value an operator computes from the values of left and right
BinaryValue(d, op, left_value, right_value) ==
    LET ln == number(left_value)
        rn == number(right_value)
        lb == boolean(left_value)
        rb == boolean(right_value)
        l == ln.value
        r == rn.value
        real == ~l.nan /\ ~r.nan
    IN CASE op = "Equal" -> OkSome(BoolV(ValueEq(d, left_value, right_value)))
         [] op = "NotEqual" -> OkSome(BoolV(~ValueEq(d, left_value, right_value)))
         [] op = "And" ->
                IF lb.kind = "Err" THEN lb
                ELSE IF ~lb.value.b THEN OkSome(BoolV(FALSE))
                ELSE rb
         [] op = "Or" ->
                IF lb.kind = "Err" THEN lb
                ELSE IF lb.value.b THEN OkSome(BoolV(TRUE))
                ELSE rb
         [] ln.kind = "Err" -> ln
         [] rn.kind = "Err" -> rn
         [] op = "Addition" -> OkSome(IF real THEN NumV(l.h + r.h) ELSE NaNV)
         [] op = "Subtraction" -> OkSome(IF real THEN NumV(l.h - r.h) ELSE NaNV)
         [] op = "LessThan" -> OkSome(BoolV(real /\ l.h < r.h))
         [] op = "LessThanEqual" -> OkSome(BoolV(real /\ l.h <= r.h))
         [] op = "GreaterThan" -> OkSome(BoolV(real /\ l.h > r.h))
         [] op = "GreaterThanEqual" -> OkSome(BoolV(real /\ l.h >= r.h))
         [] OTHER -> Err("UnableToEvaluate")

\* a verdict that rounds the Number up
PredicateVerdictCeil(value, position) ==
    IF value.type = "Number"
    THEN position = (IF value.nan \/ value.h < 0 THEN 0 ELSE (value.h + 1) \div 2)
    ELSE is_something(value)

\* Predicate::matches_eval, the match on the value: a Number is compared
\* with the position through `as usize`, any other value must be something
PredicateVerdict(value, position) ==
    IF value.type = "Number" THEN position = AsUsize(value) ELSE is_something(value)

\* the boolean value not() negates (Value::as_boolean)
as_boolean(v) ==
    CASE v.type = "Boolean" -> v.b
      [] v.type = "Number" -> ~v.nan /\ v.h # 0
      [] v.type = "String" -> v.s # ""
      [] v.type = "Node" -> TRUE
      [] OTHER -> FALSE

\* an evaluation: the context node with its position and size
MkEval(node, position, size) == [node |-> node, position |-> position, size |-> size]

\* a context that counts the candidates from zero
PredicateContextFromZero(node, index, node_count) == MkEval(node, index, node_count)

\* Predicate::select, the context of the candidate at `index` of enumerate()
PredicateContext(node, index, node_count) == MkEval(node, index + 1, node_count)

\* what an evaluation step hands back: the Result, the expression's state
\* after the call, and the predicate evaluations it made
Outcome(res, st, log) == [res |-> res, st |-> st, log |-> log]

\* F applied to the value of v, which is computed a single time
Once(v, F(_)) == CHOOSE out \in {F(r) : r \in {v}} : TRUE

RECURSIVE NextEval(_, _, _, _)
RECURSIVE ConcatLoop(_, _, _, _, _)
RECURSIVE SelectLoop(_, _, _, _, _, _)
RECURSIVE PredicatesLoop(_, _, _, _, _, _)
RECURSIVE StartingLoop(_, _, _, _, _, _)
RECURSIVE StepsLoop(_, _, _, _)
RECURSIVE BinaryNextEval(_, _, _, _)
RECURSIVE UnionNextEval(_, _, _, _)

\* expressions.rs, the next_eval of Addition, Subtraction, LessThan,
\* LessThanEqual, GreaterThan, GreaterThanEqual, Equal, NotEqual, And and Or:
\* left is polled, then right; an operand without a value ends the call
\* with the operator's default
BinaryNextEval(d, x, st, ev) ==
    Once(NextEval(d, x.args[1], st.ops[1], ev), LAMBDA lo :
    LET st1 == [st EXCEPT !.ops[1] = lo.st]
    IN CASE lo.res.kind = "Err" -> Outcome(lo.res, st1, lo.log)
         [] lo.res.kind = "None" -> Outcome(OkSome(res_opt_def(x.e)), st1, lo.log)
         [] OTHER ->
            Once(NextEval(d, x.args[2], st.ops[2], ev), LAMBDA ro :
            LET st2 == [st1 EXCEPT !.ops[2] = ro.st]
                log == lo.log \o ro.log
            IN CASE ro.res.kind = "Err" -> Outcome(ro.res, st2, log)
                 [] ro.res.kind = "None" -> Outcome(OkSome(res_opt_def(x.e)), st2, log)
                 [] OTHER -> Outcome(BinaryValue(d, x.e, lo.res.value, ro.res.value),
                                     st2, log)))

\* Union::next_eval: left is polled in the call that finds skip_left false,
\* which sets it; right is polled when left was skipped or had no value
UnionNextEval(d, x, st, ev) ==
    LET UnionRight(st1, log) ==
            Once(NextEval(d, x.args[2], st1.ops[2], ev), LAMBDA ro :
                 Outcome(ro.res, [st1 EXCEPT !.ops[2] = ro.st], log \o ro.log))
    IN IF ~st.skip_left
       THEN Once(NextEval(d, x.args[1], st.ops[1], ev), LAMBDA lo :
            LET st1 == [st EXCEPT !.skip_left = TRUE, !.ops[1] = lo.st]
            IN IF lo.res.kind \in {"Err", "Some"} THEN Outcome(lo.res, st1, lo.log)
               ELSE UnionRight(st1, lo.log))
       ELSE UnionRight(st, <<>>)

\* functions.rs, Concat::exec: every argument must be a Node with a
\* string-value
ConcatLoop(d, args, ev, k, concat_value) ==
    IF k > Len(args) THEN OkSome(StrV(concat_value))
    ELSE Once(NextEval(d, args[k], NewExprState(args[k]), ev).res, LAMBDA r :
         LET node == IF r.kind = "Some" THEN into_node(r.value) ELSE r
             string_value == IF node.kind = "Some"
                             THEN get_string_value(d, node.value.node) ELSE node
         IN CASE r.kind = "Err" -> r
              [] r.kind = "None" -> Err("MissingFuncArgument")
              [] node.kind = "Err" -> node
              [] string_value.kind = "Err" -> string_value
              [] OTHER -> ConcatLoop(d, args, ev, k + 1, concat_value \o string_value.value.s))

\* functions.rs, Not::exec
NotExec(d, args, ev) ==
    IF Len(args) = 0 THEN Err("MissingFuncArgument")
    ELSE Once(NextEval(d, args[1], NewExprState(args[1]), ev).res, LAMBDA found :
         CASE found.kind = "Err" -> found
           [] found.kind = "None" -> Err("MissingFuncArgument")
           [] OTHER -> OkSome(BoolV(~as_boolean(found.value))))

\* functions.rs, ToString::exec: the text of the argument's first value
ToStringExec(d, args, ev) ==
    IF Len(args) = 0 THEN Err("MissingFuncArgument")
    ELSE Once(NextEval(d, args[1], NewExprState(args[1]), ev).res, LAMBDA found :
         CASE found.kind = "Err" -> found
           [] found.kind = "None" -> Err("MissingFuncArgument")
           [] found.value.type = "Boolean" ->
                OkSome(StrV(IF found.value.b THEN "true" ELSE "false"))
           [] found.value.type = "Number" -> OkSome(StrV(F64ToString(found.value)))
           [] found.value.type = "String" -> found
           [] OTHER -> OkSome(StrV("Node(" \o found.value.node.tag \o ")")))

\* functions.rs, Contains::exec: both arguments must be Nodes with a
\* string-value; an empty left contains nothing, an empty right is in every
\* other left, and otherwise str::contains decides
ContainsExec(d, args, ev) ==
    LET chars == [s \in {"", "t", "id", "class"} |->
                    CASE s = "" -> <<>> [] s = "t" -> <<"t">>
                      [] s = "id" -> <<"i", "d">>
                      [] OTHER -> <<"c", "l", "a", "s", "s">>]
        str_contains(l, r) ==
            \E k \in 0..(Len(chars[l]) - Len(chars[r])) :
                SubSeq(chars[l], k + 1, k + Len(chars[r])) = chars[r]
        string_of(r) == IF r.kind # "Some" THEN r
                        ELSE IF into_node(r.value).kind = "Err" THEN into_node(r.value)
                        ELSE get_string_value(d, r.value.node)
    IN IF Len(args) = 0 THEN Err("MissingFuncArgument")
       ELSE Once(NextEval(d, args[1], NewExprState(args[1]), ev).res, LAMBDA left :
            CASE left.kind = "Err" -> left
              [] left.kind = "None" \/ Len(args) = 1 -> Err("MissingFuncArgument")
              [] OTHER ->
                 Once(NextEval(d, args[2], NewExprState(args[2]), ev).res, LAMBDA right :
                 LET left_value == string_of(left)
                     right_value == string_of(right)
                 IN CASE right.kind = "Err" -> right
                      [] right.kind = "None" -> Err("MissingFuncArgument")
                      [] into_node(left.value).kind = "Err" -> into_node(left.value)
                      [] into_node(right.value).kind = "Err" -> into_node(right.value)
                      [] left_value.kind = "Err" -> left_value
                      [] right_value.kind = "Err" -> right_value
                      [] left_value.value.s = "" -> OkSome(BoolV(FALSE))
                      [] right_value.value.s = "" -> OkSome(BoolV(TRUE))
                      [] OTHER -> OkSome(BoolV(str_contains(left_value.value.s,
                                                            right_value.value.s)))))

\* functions.rs: the exec of the functions of the universe
FunctionExec(d, x, ev) ==
    CASE x.name = "true" -> OkSome(BoolV(TRUE))
      [] x.name = "false" -> OkSome(BoolV(FALSE))
      [] x.name = "position" -> OkSome(UsizeAsNumber(ev.position))
      [] x.name = "last" -> OkSome(UsizeAsNumber(ev.size))
      [] x.name = "not" -> NotExec(d, x.args, ev)
      [] x.name = "concat" -> ConcatLoop(d, x.args, ev, 1, "")
      [] x.name = "string" -> ToStringExec(d, x.args, ev)
      [] x.name = "contains" -> ContainsExec(d, x.args, ev)
      [] OTHER -> Err("UnableToEvaluate")

\* Predicate::matches_eval
matches_eval(d, px, pst, ev) ==
    Once(NextEval(d, px, pst, ev), LAMBDA r :
        [kind |-> r.res.kind, err |-> r.res.err, value |-> r.res.value, st |-> r.st,
         passed |-> r.res.kind = "Some" /\ PredicateVerdict(r.res.value, ev.position)])

\* Predicate::select, the loop from candidate `index` (0-based) on; acc holds
\* found, the predicate's state and the evaluations made so far
SelectLoop(d, px, acc, nodes, index, tag) ==
    IF acc.kind = "Err" \/ index >= Len(nodes) THEN acc
    ELSE LET node == nodes[index + 1]
             ctx == PredicateContext(node, index, Len(nodes))
         IN Once(matches_eval(d, px, acc.st, ctx), LAMBDA m :
            Once([kind |-> IF m.kind = "Err" THEN "Err" ELSE "Ok", err |-> m.err,
                  found |-> IF m.passed THEN Append(acc.found, node) ELSE acc.found,
                  st |-> m.st,
                  log |-> Append(acc.log,
                            [step |-> tag.step, pred |-> tag.pred, from |-> tag.from,
                             node |-> node, position |-> ctx.position, size |-> ctx.size,
                             kind |-> m.kind, value |-> m.value, passed |-> m.passed])],
                 LAMBDA next : SelectLoop(d, px, next, nodes, index + 1, tag)))

\* Step::evaluate, the loop over the predicates of the step from predicate j
\* on; acc holds the surviving nodes and the states of the predicates
PredicatesLoop(d, step, acc, j, from, stepIndex) ==
    IF acc.kind = "Err" \/ j > Len(step.predicates) THEN acc
    ELSE Once(SelectLoop(d, step.predicates[j],
                  [kind |-> "Ok", err |-> "none", found |-> <<>>,
                   st |-> acc.st[j], log |-> <<>>],
                  acc.nodes, 0, [step |-> stepIndex, pred |-> j, from |-> from]),
              LAMBDA sel :
         Once([kind |-> sel.kind, err |-> sel.err, nodes |-> sel.found,
               st |-> [acc.st EXCEPT ![j] = sel.st], log |-> acc.log \o sel.log],
              LAMBDA next : PredicatesLoop(d, step, next, j + 1, from, stepIndex)))

\* Step::evaluate, the loop over the starting nodes from the k-th on; acc
\* holds unique, the states of the predicates and the evaluations made
StartingLoop(d, step, acc, starting_nodes, k, stepIndex) ==
    IF acc.kind = "Err" \/ k > Len(starting_nodes) THEN acc
    ELSE Once(PredicatesLoop(d, step,
                  [kind |-> "Ok", err |-> "none",
                   nodes |-> find_nodes(d, starting_nodes[k], step.axis, step.node_test),
                   st |-> acc.st, log |-> <<>>], 1, starting_nodes[k], stepIndex),
              LAMBDA sel :
         Once([kind |-> sel.kind, err |-> sel.err,
               nodes |-> IF sel.kind = "Err" THEN acc.nodes ELSE acc.nodes \o sel.nodes,
               st |-> sel.st, log |-> acc.log \o sel.log],
              LAMBDA next : StartingLoop(d, step, next, starting_nodes, k + 1, stepIndex)))

\* Step::evaluate
StepEvaluate(d, step, sst, starting_nodes, stepIndex) ==
    StartingLoop(d, step,
        [kind |-> "Ok", err |-> "none", nodes |-> <<>>, st |-> sst, log |-> <<>>],
        starting_nodes, 1, stepIndex)

\* Path::next_eval, the loop over the steps from step i on
StepsLoop(d, steps, acc, i) ==
    IF acc.kind = "Err" \/ i > Len(steps) THEN acc
    ELSE Once(StepEvaluate(d, steps[i], acc.st[i], acc.nodes, i), LAMBDA r :
         Once([kind |-> r.kind, err |-> r.err, nodes |-> r.nodes,
               st |-> [acc.st EXCEPT ![i] = r.st], log |-> acc.log \o r.log],
              LAMBDA next : StepsLoop(d, steps, next, i + 1)))

\* Path::next_eval, the pop from found_cache
PathPop(s, log) ==
    IF s.nodes = <<>> THEN Outcome(OkNone, s, log)
    ELSE Outcome(OkSome(NodeV(Last(s.nodes))), [s EXCEPT !.nodes = Front(s.nodes)], log)

\* Path::next_eval, the walk of the steps from the node start_pos returned
PathFill(d, x, st1, node) ==
    Once(StepsLoop(d, x.steps,
             [kind |-> "Ok", err |-> "none", nodes |-> <<node>>,
              st |-> st1.sub, log |-> <<>>], 1),
         LAMBDA run :
            IF run.kind = "Err"
            THEN Outcome(Err(run.err), [st1 EXCEPT !.sub = run.st], run.log)
            ELSE PathPop([st1 EXCEPT !.some = TRUE, !.nodes = Reverse(run.nodes),
                                     !.sub = run.st], run.log))

\* Path::next_eval
PathNextEval(d, x, st, ev) ==
    LET keep == st.some /\ st.cached_from.tag # "None" /\ NodeEq(st.cached_from, ev.node)
        st0 == IF keep THEN st ELSE [st EXCEPT !.some = FALSE, !.nodes = <<>>]
        st1 == IF st0.some THEN st0 ELSE [st0 EXCEPT !.cached_from = ev.node]
    IN IF st0.some THEN PathPop(st0, <<>>)
       ELSE Once(NextEval(d, x.start_pos[1], NewExprState(x.start_pos[1]), ev).res,
                 LAMBDA result :
            CASE result.kind = "Err" -> Outcome(result, st1, <<>>)
              [] result.kind = "None" -> Outcome(OkNone, st1, <<>>)
              [] into_node(result.value).kind = "Err" ->
                    Outcome(into_node(result.value), st1, <<>>)
              [] OTHER -> PathFill(d, x, st1, result.value.node))

\* the structs with a left and a right operand
BinaryOps == {"Addition", "Subtraction", "LessThan", "LessThanEqual", "GreaterThan",
              "GreaterThanEqual", "Equal", "NotEqual", "And", "Or"}

\* Expression::next_eval of Literal, RootNode, ContextNode, Function, Path
\* and the operators
NextEval(d, x, st, ev) ==
    CASE x.e = "Literal" -> Outcome(OkSome(x.value), st, <<>>)
      [] x.e \in BinaryOps -> BinaryNextEval(d, x, st, ev)
      [] x.e = "Union" -> UnionNextEval(d, x, st, ev)
      [] x.e = "RootNode" -> Outcome(OkSome(NodeV(MkNode("Root", 0))), st, <<>>)
      [] x.e = "ContextNode" -> Outcome(OkSome(NodeV(ev.node)), st, <<>>)
      [] x.e = "Function" -> Outcome(FunctionExec(d, x, ev), st, <<>>)
      [] x.e = "Path" -> PathNextEval(d, x, st, ev)
      [] OTHER -> Outcome(Err("UnableToEvaluate"), st, <<>>)

----------------------------------------------------------------------------
(* factory.rs: ProduceIter, polled by the caller of Document::evaluate_from *)

\* documents of elements and text
EvalDocs == {d \in Docs : \A i \in 1..d.n : d.kind[i] # "b"}

AnyNode == [type |-> "node", name |-> "*"]
AnyElement == [type |-> "element", name |-> "*"]

\* self::* from the context node: a Node for an element, no value otherwise
SelfElementPath == MkPath(MkContextNode, <<MkStep("SelfAxis", AnyElement, <<>>)>>)

\* predicate expressions: numbers (in halves) and NaN, strings, booleans,
\* position() and last(), the context node, a path, and two failing calls
PredExprs ==
    {MkLiteral(NumV(h)) : h \in {-2, 1, 2, 3, 4}} \cup
    {MkLiteral(NaNV), MkLiteral(StrV("")), MkLiteral(StrV("x")),
     MkFunction("true", <<>>), MkFunction("false", <<>>),
     MkFunction("position", <<>>), MkFunction("last", <<>>),
     MkContextNode, SelfElementPath,
     MkFunction("not", <<>>), MkFunction("concat", <<MkLiteral(StrV("x"))>>)}

\* the predicates that are combined in pairs
PairPredExprs ==
    {MkLiteral(NumV(2)), MkLiteral(NumV(4)), MkFunction("last", <<>>),
     MkFunction("position", <<>>), SelfElementPath}

PlainAxes == {"Child", "Descendant", "Parent", "Ancestor", "PrecedingSibling", "SelfAxis"}
PlainSteps == {MkStep(ax, t, <<>>) : ax \in PlainAxes, t \in {AnyNode, AnyElement}}
PredAxes == {"Child", "DescendantOrSelf"}

\* the expressions that are compiled
PathExprs ==
    {MkPath(MkContextNode, <<s>>) : s \in PlainSteps} \cup
    {MkPath(MkContextNode, <<s1, s2>>) : s1 \in PlainSteps, s2 \in PlainSteps} \cup
    {MkPath(MkRootNode, <<MkStep(ax, AnyNode, <<p>>)>>) : ax \in PredAxes, p \in PredExprs} \cup
    {MkPath(MkRootNode, <<MkStep(ax, AnyNode, <<p1, p2>>)>>) :
        ax \in PredAxes, p1 \in PairPredExprs, p2 \in PairPredExprs} \cup
    {MkPath(MkLiteral(NumV(2)), <<MkStep("Child", AnyNode, <<>>)>>)}

PlainExprs ==
    {MkLiteral(NumV(2)), MkLiteral(StrV("x")), MkRootNode, MkContextNode,
     MkFunction("true", <<>>), MkFunction("not", <<>>),
     MkFunction("not", <<MkFunction("true", <<>>)>>),
     MkFunction("concat", <<MkLiteral(NumV(2)), MkLiteral(StrV("x"))>>),
     MkFunction("concat", <<MkContextNode>>)}

EvalExprs == PathExprs \cup PlainExprs

\* ProduceIter::next: next_eval(..).ok().flatten()
ProduceIterNext(res) == IF res.kind = "Some" THEN res ELSE OkNone

InitEval ==
    /\ mode = "eval"
    /\ doc \in EvalDocs
    /\ ctxnode \in DomNodes(doc)
    /\ expr \in EvalExprs
    /\ est = NewExprState(expr)
    /\ polls = 0
    /\ outcome = OkNone
    /\ returned = OkNone
    /\ yielded = <<>>
    /\ predLog = <<>>
    /\ ended = FALSE
    /\ IdleWalk
    /\ IdleTok

\* one ProduceIter::next call
ProduceNext ==
    /\ mode = "eval"
    /\ \E r \in {NextEval(doc, expr, est, MkEval(ctxnode, 1, 1))} :
       LET item == ProduceIterNext(r.res)
       IN /\ est' = r.st
          /\ outcome' = r.res
          /\ returned' = item
          /\ yielded' = IF item.kind = "Some" /\ Len(yielded) < MaxPolls
                        THEN Append(yielded, item.value) ELSE yielded
          /\ predLog' = IF r.log # <<>> THEN r.log ELSE predLog
          /\ ended' = (ended \/ item.kind = "None")
    /\ polls' = IF polls < MaxPolls THEN polls + 1 ELSE 1
    /\ UNCHANGED <<doc, mode, expr, ctxnode, walkVars, tokVars>>

NextEvalStep == ProduceNext

SpecEval == InitEval /\ [][NextEvalStep]_vars

\* the expressions polled without end: the plain ones and the paths of one
\* step
PolledExprs == PlainExprs \cup {MkPath(MkContextNode, <<s>>) : s \in PlainSteps}

InitEvalPolled == InitEval /\ expr \in PolledExprs

\* the caller keeps polling
SpecEvalPolled == InitEvalPolled /\ [][NextEvalStep]_vars /\ WF_vars(ProduceNext)

----------------------------------------------------------------------------
(* factory.rs: Factory::tokenize drains the Tokenizer into token_steps *)

\* tokens.rs, ExprToken: the variant and what it carries
Tok(token, arg) == [token |-> token, arg |-> arg]

\* what Tokenizer::next returns: Ok(token), or Err
LexTokens ==
    {Tok("AtSign", ""), Tok("Period", ""), Tok("ParentNode", ""),
     Tok("Operator", "DoubleForwardSlash"), Tok("Operator", "ForwardSlash"),
     Tok("Axis", "Child"), Tok("NodeType", "Text"), Tok("NameTest", "a")}
LexError == Tok("Err", "Token")

RECURSIVE SeqsUpTo(_, _)
SeqsUpTo(S, n) ==
    IF n = 0 THEN {<<>>}
    ELSE SeqsUpTo(S, n - 1) \cup
         {Append(q, x) : q \in {p \in SeqsUpTo(S, n - 1) : Len(p) = n - 1}, x \in S}

\* an expansion that leaves every token as it is
expand_nothing(steps, token) == Append(steps, token)

\* Factory::expand_abbreviation
expand_abbreviation(steps, token) ==
    CASE token = Tok("AtSign", "") -> Append(steps, Tok("Axis", "Attribute"))
      [] token = Tok("Operator", "DoubleForwardSlash") ->
            steps \o <<Tok("Operator", "ForwardSlash"), Tok("Axis", "DescendantOrSelf"),
                       Tok("NodeType", "Node"), Tok("Operator", "ForwardSlash")>>
      [] token = Tok("Period", "") ->
            steps \o <<Tok("Axis", "SelfAxis"), Tok("NodeType", "Node")>>
      [] token = Tok("ParentNode", "") ->
            steps \o <<Tok("Axis", "Parent"), Tok("NodeType", "Node")>>
      [] OTHER -> Append(steps, token)

InitTok ==
    /\ mode = "tok"
    /\ doc \in DocsOfSize(1)
    /\ tokenizer \in SeqsUpTo(LexTokens \cup {LexError}, MaxTokens)
    /\ token_steps = <<>>
    /\ error = "None"
    /\ drained = <<>>
    /\ produced = "None"
    /\ IdleWalk
    /\ IdleEval

\* Factory::tokenize, one turn of the loop on a token
TokenizeToken ==
    /\ mode = "tok"
    /\ error = "None"
    /\ tokenizer # <<>>
    /\ Head(tokenizer) # LexError
    /\ token_steps' = expand_abbreviation(token_steps, Head(tokenizer))
    /\ drained' = Append(drained, Head(tokenizer))
    /\ tokenizer' = Tail(tokenizer)
    /\ UNCHANGED <<doc, mode, error, produced, walkVars, evalVars>>

\* Factory::tokenize, the turn of the loop on an Err: it is kept and the
\* loop is left
TokenizeError ==
    /\ mode = "tok"
    /\ error = "None"
    /\ tokenizer # <<>>
    /\ Head(tokenizer) = LexError
    /\ error' = "Some(Token)"
    /\ tokenizer' = Tail(tokenizer)
    /\ UNCHANGED <<doc, mode, token_steps, drained, produced, walkVars, evalVars>>

NextTok == TokenizeToken \/ TokenizeError

SpecTok == InitTok /\ [][NextTok]_vars

----------------------------------------------------------------------------
(* parser.rs: the Tokenizer on the characters of a query.  The query is   *)
(* the sequence of its characters, a token's text is a string.            *)

\* parser.rs, the tables of fixed tokens, in the order they are tried
SINGLE_CHAR_TOKENS ==
    <<[name |-> <<"/">>, id |-> Tok("Operator", "ForwardSlash")],
      [name |-> <<"(">>, id |-> Tok("LeftParen", "")],
      [name |-> <<")">>, id |-> Tok("RightParen", "")],
      [name |-> <<"[">>, id |-> Tok("LeftBracket", "")],
      [name |-> <<"]">>, id |-> Tok("RightBracket", "")],
      [name |-> <<"@">>, id |-> Tok("AtSign", "")],
      [name |-> <<"+">>, id |-> Tok("Operator", "Plus")],
      [name |-> <<"-">>, id |-> Tok("Operator", "Minus")],
      [name |-> <<"|">>, id |-> Tok("Operator", "Pipe")],
      [name |-> <<"=">>, id |-> Tok("Operator", "Equal")],
      [name |-> <<"<">>, id |-> Tok("Operator", "LessThan")],
      [name |-> <<">">>, id |-> Tok("Operator", "GreaterThan")],
      [name |-> <<",">>, id |-> Tok("Comma", "")]>>

DOUBLE_CHAR_TOKENS ==
    <<[name |-> <<"<", "=">>, id |-> Tok("Operator", "LessThanOrEqual")],
      [name |-> <<">", "=">>, id |-> Tok("Operator", "GreaterThanOrEqual")],
      [name |-> <<"!", "=">>, id |-> Tok("Operator", "DoesNotEqual")],
      [name |-> <<"/", "/">>, id |-> Tok("Operator", "DoubleForwardSlash")],
      [name |-> <<".", ".">>, id |-> Tok("ParentNode", "")]>>

NAMED_OPERATORS ==
    <<[name |-> <<"a", "n", "d">>, id |-> Tok("Operator", "And")],
      [name |-> <<"o", "r">>, id |-> Tok("Operator", "Or")],
      [name |-> <<"*">>, id |-> Tok("Operator", "Star")]>>

AXES ==
    <<[name |-> <<"a", "n", "c", "e", "s", "t", "o", "r", "-", "o", "r", "-", "s", "e", "l", "f">>, id |-> Tok("Axis", "AncestorOrSelf")],
      [name |-> <<"a", "n", "c", "e", "s", "t", "o", "r">>, id |-> Tok("Axis", "Ancestor")],
      [name |-> <<"a", "t", "t", "r", "i", "b", "u", "t", "e">>, id |-> Tok("Axis", "Attribute")],
      [name |-> <<"c", "h", "i", "l", "d">>, id |-> Tok("Axis", "Child")],
      [name |-> <<"d", "e", "s", "c", "e", "n", "d", "a", "n", "t", "-", "o", "r", "-", "s", "e", "l", "f">>, id |-> Tok("Axis", "DescendantOrSelf")],
      [name |-> <<"d", "e", "s", "c", "e", "n", "d", "a", "n", "t">>, id |-> Tok("Axis", "Descendant")],
      [name |-> <<"f", "o", "l", "l", "o", "w", "i", "n", "g", "-", "s", "i", "b", "l", "i", "n", "g">>, id |-> Tok("Axis", "FollowingSibling")],
      [name |-> <<"f", "o", "l", "l", "o", "w", "i", "n", "g">>, id |-> Tok("Axis", "Following")],
      [name |-> <<"n", "a", "m", "e", "s", "p", "a", "c", "e">>, id |-> Tok("Axis", "Namespace")],
      [name |-> <<"p", "a", "r", "e", "n", "t">>, id |-> Tok("Axis", "Parent")],
      [name |-> <<"p", "r", "e", "c", "e", "d", "i", "n", "g", "-", "s", "i", "b", "l", "i", "n", "g">>, id |-> Tok("Axis", "PrecedingSibling")],
      [name |-> <<"p", "r", "e", "c", "e", "d", "i", "n", "g">>, id |-> Tok("Axis", "Preceding")],
      [name |-> <<"s", "e", "l", "f">>, id |-> Tok("Axis", "SelfAxis")]>>

NODE_TYPES ==
    <<[name |-> <<"c", "o", "m", "m", "e", "n", "t">>, id |-> Tok("NodeType", "Comment")],
      [name |-> <<"t", "e", "x", "t">>, id |-> Tok("NodeType", "Text")],
      [name |-> <<"p", "r", "o", "c", "e", "s", "s", "i", "n", "g", "-", "i", "n", "s", "t", "r", "u", "c", "t", "i", "o", "n">>, id |-> Tok("NodeType", "ProcessingInstruction")],
      [name |-> <<"n", "o", "d", "e">>, id |-> Tok("NodeType", "Node")]>>

\* [a-zA-Z0-9]
AlphaNumeric ==
    {"a", "b", "c", "d", "e", "f", "g", "h", "i", "j", "k", "l", "m", "n", "o", "p", "q", "r", "s", "t", "u", "v", "w", "x", "y", "z",
     "A", "B", "C", "D", "E", "F", "G", "H", "I", "J", "K", "L", "M", "N", "O", "P", "Q", "R", "S", "T", "U", "V", "W", "X", "Y", "Z",
     "0", "1", "2", "3", "4", "5", "6", "7", "8", "9"}

\* the character classes of the regular expressions: [a-zA-Z0-9_] of
\* parse_name_test and [a-zA-Z0-9:_] of parse_function_call
NameTestChars == AlphaNumeric \cup {"_"}
FunctionNameChars == AlphaNumeric \cup {":", "_"}
NumberChars == {"0", "1", "2", "3", "4", "5", "6", "7", "8", "9", "."}

\* rem_path[a..b] with 0-based a and exclusive b, as a string
RECURSIVE Slice(_, _, _)
Slice(rem_path, a, b) ==
    IF a >= b THEN "" ELSE rem_path[a + 1] \o Slice(rem_path, a + 1, b)

\* the end of the longest run of characters of `class` that starts at the
\* 0-based index `from`
RECURSIVE RunEnd(_, _, _)
RunEnd(rem_path, from, class) ==
    IF from < Len(rem_path) /\ rem_path[from + 1] \in class
    THEN RunEnd(rem_path, from + 1, class) ELSE from

\* ParseResult = Option<(usize, ExprToken)>
ParseSome(inc, token) == [some |-> TRUE, inc |-> inc, token |-> token]
ParseNone == [some |-> FALSE, inc |-> 0, token |-> Tok("None", "")]

\* &rem_path[0..name.len()] == *name
StartsWith(rem_path, name) ==
    Len(rem_path) >= Len(name) /\ SubSeq(rem_path, 1, Len(name)) = name

\* Tokenizer::parse_token_array: the first identity that begins rem_path
parse_token_array(rem_path, identities) ==
    LET hits == {k \in 1..Len(identities) : StartsWith(rem_path, identities[k].name)}
    IN IF hits = {} THEN ParseNone
       ELSE LET k == CHOOSE h \in hits : \A g \in hits : h <= g
            IN ParseSome(Len(identities[k].name), identities[k].id)

\* Tokenizer::parse_literal
parse_literal(rem_path) ==
    IF rem_path[1] \in {"\"", "'"}
    THEN LET quote_type == rem_path[1]
             end_pos == RunEnd(rem_path, 1, {c \in Range(rem_path) : c # quote_type}) + 1
         IN IF Len(rem_path) >= end_pos /\ end_pos - 1 # 1 /\ rem_path[end_pos] = quote_type
            THEN ParseSome(end_pos, Tok("Literal", Slice(rem_path, 1, end_pos - 1)))
            ELSE ParseNone
    ELSE ParseNone

\* Tokenizer::parse_numbers
parse_numbers(rem_path) ==
    IF rem_path[1] \in NumberChars
    THEN LET end_pos == RunEnd(rem_path, 0, NumberChars)
             decimals == Cardinality({k \in 1..end_pos : rem_path[k] = "."})
         IN IF decimals > 1 \/ (decimals = 1 /\ end_pos = 1) THEN ParseNone
            ELSE ParseSome(end_pos, Tok("Number", Slice(rem_path, 0, end_pos)))
    ELSE ParseNone

\* Tokenizer::parse_current_node
parse_current_node(rem_path) ==
    IF rem_path[1] = "." THEN ParseSome(1, Tok("Period", "")) ELSE ParseNone

\* Tokenizer::parse_axes
parse_axes(rem_path) ==
    LET parsed == parse_token_array(rem_path, AXES)
    IN IF /\ parsed.some
          /\ Len(rem_path) >= parsed.inc + 2
          /\ SubSeq(rem_path, parsed.inc + 1, parsed.inc + 2) = <<":", ":">>
       THEN ParseSome(parsed.inc + 2, parsed.token)
       ELSE ParseNone

\* Tokenizer::find_function_parenth: Some((inner_size, inner_str)) when
\* rem_path begins with ( and has at least two characters
find_function_parenth(rem_path) ==
    LET inner_size == RunEnd(rem_path, 0, {c \in Range(rem_path) : c # ")"}) + 1
    IN IF Len(rem_path) >= 2 /\ rem_path[1] = "(" /\ Len(rem_path) >= inner_size
       THEN [some |-> TRUE, size |-> inner_size,
             inner_str |-> IF inner_size = 2 THEN "" ELSE Slice(rem_path, 1, inner_size - 1)]
       ELSE [some |-> FALSE, size |-> 0, inner_str |-> ""]

\* Tokenizer::parse_node_types
parse_node_types(rem_path) ==
    LET found == parse_token_array(rem_path, NODE_TYPES)
        parenth == find_function_parenth(SubSeq(rem_path, found.inc + 1, Len(rem_path)))
    IN IF ~found.some THEN ParseNone
       ELSE IF parenth.some
       THEN ParseSome(found.inc + parenth.size,
                IF found.token.arg = "ProcessingInstruction" /\ parenth.inner_str # ""
                THEN Tok("NodeType", "ProcessingInstruction(" \o parenth.inner_str \o ")")
                ELSE found.token)
       ELSE found

\* Tokenizer::parse_function_call
Tokenizer_parse_function_call(rem_path) ==
    LET found_end == RunEnd(rem_path, 0, FunctionNameChars)
    IN IF /\ found_end > 0
          /\ find_function_parenth(SubSeq(rem_path, found_end + 1, Len(rem_path))).some
       THEN ParseSome(found_end, Tok("FunctionName", Slice(rem_path, 0, found_end)))
       ELSE ParseNone

\* Tokenizer::parse_variable_ref
parse_variable_ref(rem_path) ==
    LET found_end == RunEnd(rem_path, 1, FunctionNameChars)
    IN IF rem_path[1] = "$" /\ found_end > 1
       THEN ParseSome(found_end, Tok("VariableReference", Slice(rem_path, 1, found_end)))
       ELSE ParseNone

\* Tokenizer::parse_name_test; the NameTest's text is prefix:local_part, or
\* local_part alone when there is no colon
parse_name_test(rem_path) ==
    LET ncname_end == RunEnd(rem_path, 0, NameTestChars)
        colon == ncname_end < Len(rem_path) /\ rem_path[ncname_end + 1] = ":"
        star == colon /\ ncname_end + 1 < Len(rem_path) /\ rem_path[ncname_end + 2] = "*"
        found_end == IF colon THEN RunEnd(rem_path, ncname_end + 1, NameTestChars)
                     ELSE ncname_end
    IN IF rem_path[1] = "*" THEN ParseSome(1, Tok("NameTest", "*"))
       ELSE IF ncname_end = 0 THEN ParseNone
       ELSE IF star THEN ParseSome(ncname_end + 2, Tok("NameTest", Slice(rem_path, 0, ncname_end + 2)))
       ELSE ParseSome(found_end, Tok("NameTest", Slice(rem_path, 0, found_end)))

\* Tokenizer::next_token, after the spaces: the first parser that finds a
\* token
FirstFound(rem_path) ==
    LET attempts == <<parse_token_array(rem_path, DOUBLE_CHAR_TOKENS),
                      parse_token_array(rem_path, SINGLE_CHAR_TOKENS),
                      parse_literal(rem_path),
                      parse_numbers(rem_path),
                      parse_current_node(rem_path),
                      parse_token_array(rem_path, NAMED_OPERATORS),
                      parse_axes(rem_path),
                      parse_node_types(rem_path),
                      Tokenizer_parse_function_call(rem_path),
                      parse_variable_ref(rem_path),
                      parse_name_test(rem_path)>>
        hits == {k \in 1..Len(attempts) : attempts[k].some}
    IN IF hits = {} THEN ParseNone
       ELSE attempts[CHOOSE h \in hits : \A g \in hits : h <= g]

\* Tokenizer::is_finished
is_finished(t) == Len(t.xpath) <= t.pos

\* Tokenizer::next_token: the spaces are skipped without a look at the
\* length, so bytes[self.pos] past the last byte panics
next_token(t) ==
    LET spaces_end == RunEnd(t.xpath, t.pos, {" "})
        found == FirstFound(SubSeq(t.xpath, spaces_end + 1, Len(t.xpath)))
    IN IF spaces_end >= Len(t.xpath)
       THEN [res |-> "panic", token |-> LexError, tokenizer |-> [t EXCEPT !.pos = spaces_end]]
       ELSE IF found.some
       THEN [res |-> "Ok", token |-> found.token,
             tokenizer |-> [t EXCEPT !.pos = spaces_end + found.inc]]
       ELSE [res |-> "Err", token |-> LexError,
             tokenizer |-> [t EXCEPT !.pos = Len(t.xpath)]]

\* the pieces the queries are written with, and the queries: up to
\* MaxPieces pieces in a row
Pieces ==
    {<<"\"">>, <<"'">>, <<"c">>, <<" ">>, <<"(">>, <<")">>, <<"-">>, <<"t", "e", "x", "t">>}

RECURSIVE Queries(_)
Queries(n) ==
    IF n = 0 THEN {<<>>}
    ELSE LET shorter == Queries(n - 1)
         IN shorter \cup {q \o p : q \in shorter, p \in Pieces}

InitLex ==
    /\ mode = "lex"
    /\ doc \in DocsOfSize(1)
    /\ tokenizer \in {[xpath |-> q, pos |-> 0] : q \in Queries(MaxPieces)}
    /\ token_steps = <<>>
    /\ error = "None"
    /\ drained = <<>>
    /\ produced = "None"
    /\ IdleWalk
    /\ IdleEval

\* Factory::tokenize, one turn of its loop: self.tokenizer.next().unwrap();
\* a token is expanded into token_steps, an error is stored and ends the loop
TokenizerNext ==
    /\ mode = "lex"
    /\ error = "None"
    /\ ~is_finished(tokenizer)
    /\ \E r \in {next_token(tokenizer)} :
          /\ tokenizer' = r.tokenizer
          /\ drained' = IF r.res = "Ok" THEN Append(drained, r.token) ELSE drained
          /\ token_steps' = IF r.res = "Ok" THEN expand_abbreviation(token_steps, r.token)
                            ELSE token_steps
          /\ error' = CASE r.res = "Ok" -> "None"
                        [] r.res = "Err" -> "Some(Token)"
                        [] OTHER -> "panic"
    /\ UNCHANGED <<doc, mode, produced, walkVars, evalVars>>

NextLex == TokenizerNext

SpecLex == InitLex /\ [][NextLex]_vars

----------------------------------------------------------------------------
(* factory.rs: the recursive-descent parser.  The Stepper is the sequence  *)
(* of tokens not yet taken.  A parse function gives back                   *)
(* Result<Option<..>> and the Stepper as it left it, for it keeps what it  *)
(* consumed also when it answers None.  Two outcomes are no Result: the    *)
(* panic of unwrap/expect on a None, and a loop that never ends; both are  *)
(* carried like an error.                                                  *)

Parsed(res, x, rest, err) == [res |-> res, x |-> x, rest |-> rest, err |-> err]

\* Stepper::consume: the next token is taken, and must be `token`
consume(ts, token) ==
    IF ts = <<>> THEN Parsed("Err", MkLiteral(NoValue), ts, "InputEmpty")
    ELSE IF Head(ts) # token
         THEN Parsed("Err", MkLiteral(NoValue), Tail(ts), "UnexpectedToken")
    ELSE Parsed("Some", MkLiteral(NoValue), Tail(ts), "")

\* the names parse_function_call knows
FunctionLibrary ==
    {"last", "position", "count", "local-name", "namespace-uri", "name", "string",
     "concat", "starts-with", "contains", "substring-before", "substring-after",
     "substring", "string-length", "normalize-space", "not", "true", "false", "sum",
     "floor", "ceiling", "round"}

RECURSIVE parse_or_expression(_)
RECURSIVE parse_predicate_expressions(_, _)
RECURSIVE PathStepsLoop(_, _)
RECURSIVE ArgsLoop(_, _, _)

\* the shared shape of parse_or_expression, parse_and_expression and
\* parse_equality_expression: after the left operand, the first operator of
\* `operators` that is next is consumed and the right operand is parsed by
\* parse_relational_expression; no further operator is looked for
RECURSIVE parse_relational_expression(_)
BinaryTail(left_expr, operators) ==
    Once(left_expr, LAMBDA left :
    LET found == {k \in 1..Len(operators) :
                    left.rest # <<>> /\ Head(left.rest) = Tok("Operator", operators[k][1])}
        k == CHOOSE i \in found : \A j \in found : i <= j
    IN IF left.res = "Err" \/ found = {} THEN left
       ELSE Once(parse_relational_expression(Tail(left.rest)), LAMBDA right :
            CASE right.res = "Err" -> right
              [] left.res = "None" -> Parsed("Err", left.x, right.rest, "panic")
              [] right.res = "None" ->
                    Parsed("Err", left.x, right.rest, "MissingRightHandExpression")
              [] OTHER -> Parsed("Some", MkBinary(operators[k][2], left.x, right.x),
                                 right.rest, "")))

\* Factory::parse_function_call, the loop that gathers the arguments up to
\* the RightParen; a turn that takes no token is repeated without end
ArgsLoop(ts, name, args) ==
    IF ts # <<>> /\ Head(ts) = Tok("RightParen", "")
    THEN Parsed("Some", MkFunction(name, args), Tail(ts), "")
    ELSE Once(parse_or_expression(ts), LAMBDA arg :
         LET after == IF arg.rest # <<>> /\ Head(arg.rest) = Tok("Comma", "")
                      THEN Tail(arg.rest) ELSE arg.rest
         IN CASE arg.res = "Err" -> arg
              [] after = ts -> Parsed("Err", MkFunction(name, args), ts, "diverges")
              [] OTHER -> ArgsLoop(after, name,
                                   IF arg.res = "Some" THEN Append(args, arg.x) ELSE args))

\* Factory::parse_function_call
parse_function_call(ts) ==
    IF ts = <<>> \/ Head(ts).token # "FunctionName"
    THEN Parsed("None", MkLiteral(NoValue), ts, "")
    ELSE Once(consume(Tail(ts), Tok("LeftParen", "")), LAMBDA paren :
         CASE paren.res = "Err" -> paren
           [] Head(ts).arg \notin FunctionLibrary ->
                Parsed("None", MkLiteral(NoValue), paren.rest, "")
           [] OTHER -> ArgsLoop(paren.rest, Head(ts).arg, <<>>))

\* Factory::parse_primary_expression: a Literal, a Number (str::parse of its
\* digits) or a function call
parse_primary_expression(ts) ==
    LET parse == [s \in {"0", "1", "2", "1.5"} |->
                    CASE s = "0" -> NumV(0) [] s = "1" -> NumV(2)
                      [] s = "2" -> NumV(4) [] OTHER -> NumV(3)]
    IN CASE ts # <<>> /\ Head(ts).token = "Literal" ->
                Parsed("Some", MkLiteral(StrV(Head(ts).arg)), Tail(ts), "")
         [] ts # <<>> /\ Head(ts).token = "Number" ->
                Parsed("Some", MkLiteral(parse[Head(ts).arg]), Tail(ts), "")
         [] OTHER -> parse_function_call(ts)

\* Factory::parse_predicate_expressions and parse_predicate_expression: the
\* bracketed expressions in a row; a bracket pair around nothing ends the row
parse_predicate_expressions(ts, predicates) ==
    IF ts = <<>> \/ Head(ts) # Tok("LeftBracket", "")
    THEN Parsed("Some", predicates, ts, "")
    ELSE Once(parse_or_expression(Tail(ts)), LAMBDA val :
         IF val.res = "Err" THEN val
         ELSE Once(consume(val.rest, Tok("RightBracket", "")), LAMBDA bracket :
              CASE bracket.res = "Err" -> bracket
                [] val.res = "None" -> Parsed("Some", predicates, bracket.rest, "")
                [] OTHER -> parse_predicate_expressions(bracket.rest,
                                                        Append(predicates, val.x))))

\* Factory::parse_step with parse_axis_specifier, parse_node_test and
\* default_node_test
parse_step(ts) ==
    LET has_axis == ts # <<>> /\ Head(ts).token = "Axis"
        axis_name == IF has_axis THEN Head(ts).arg ELSE "Child"
        ts1 == IF has_axis THEN Tail(ts) ELSE ts
        node_type == [s \in {"Node", "Text", "Comment"} |->
                        CASE s = "Node" -> "node" [] s = "Text" -> "text"
                          [] OTHER -> "comment"]
        node_test ==
            IF Head(ts1).token = "NodeType"
            THEN [type |-> node_type[Head(ts1).arg], name |-> "*"]
            ELSE [type |-> IF axis_name = "Attribute" THEN "attribute" ELSE "element",
                  name |-> Head(ts1).arg]
    IN IF ts1 = <<>> \/ Head(ts1).token \notin {"NodeType", "NameTest"}
       THEN Parsed("None", MkLiteral(NoValue), ts1, "")
       ELSE Once(parse_predicate_expressions(Tail(ts1), <<>>), LAMBDA preds :
            IF preds.res = "Err" THEN preds
            ELSE Parsed("Some", MkStep(axis_name, node_test, preds.x), preds.rest, ""))

\* Factory::parse_location_path_raw, the loop over the steps after a slash
PathStepsLoop(ts, steps) ==
    IF ts = <<>> \/ Head(ts) # Tok("Operator", "ForwardSlash")
    THEN Parsed("Some", steps, ts, "")
    ELSE Once(parse_step(Tail(ts)), LAMBDA next :
         CASE next.res = "Err" -> next
           [] next.res = "None" -> Parsed("Err", steps, next.rest, "TrailingSlash")
           [] OTHER -> PathStepsLoop(next.rest, Append(steps, next.x)))

\* Factory::parse_location_path_raw
parse_location_path_raw(ts, start_point) ==
    Once(parse_step(ts), LAMBDA expr_step :
    IF expr_step.res # "Some" THEN expr_step
    ELSE Once(PathStepsLoop(expr_step.rest, <<expr_step.x>>), LAMBDA steps :
         IF steps.res = "Err" THEN steps
         ELSE Parsed("Some", MkPath(start_point, steps.x), steps.rest, "")))

\* Factory::parse_path_expression with parse_location_path_expression,
\* parse_relative_location_path, parse_absolute_location_path and
\* parse_filter_expression
parse_path_expression(ts) ==
    Once(parse_location_path_raw(ts, MkContextNode), LAMBDA path :
    IF path.res # "None" THEN path
    ELSE IF path.rest # <<>> /\ Head(path.rest) = Tok("Operator", "ForwardSlash")
    THEN Once(parse_location_path_raw(Tail(path.rest), MkRootNode), LAMBDA abs :
         IF abs.res = "None" THEN Parsed("Some", MkRootNode, abs.rest, "") ELSE abs)
    ELSE Once(parse_primary_expression(path.rest), LAMBDA primary :
         IF primary.res # "Some" \/ primary.rest = <<>>
            \/ Head(primary.rest) # Tok("Operator", "ForwardSlash")
         THEN primary
         ELSE Once(parse_location_path_raw(Tail(primary.rest), primary.x), LAMBDA filtered :
              IF filtered.res = "None"
              THEN Parsed("Err", primary.x, filtered.rest, "panic")
              ELSE filtered)))

\* Factory::parse_relational_expression, parse_additive_expression,
\* parse_multiplicative_expression, parse_unary_expression and
\* parse_union_expression: each hands on to the next; parse_unary_expression
\* consumes a Minus that is next
parse_relational_expression(ts) ==
    parse_path_expression(IF ts # <<>> /\ Head(ts) = Tok("Operator", "Minus")
                          THEN Tail(ts) ELSE ts)

\* Factory::parse_equality_expression
parse_equality_expression(ts) ==
    BinaryTail(parse_relational_expression(ts),
               <<<<"Equal", "Equal">>, <<"DoesNotEqual", "NotEqual">>>>)

\* Factory::parse_and_expression
parse_and_expression(ts) ==
    BinaryTail(parse_equality_expression(ts), <<<<"And", "And">>>>)

\* Factory::parse_expression and parse_or_expression
parse_or_expression(ts) ==
    BinaryTail(parse_and_expression(ts), <<<<"Or", "Or">>>>)

\* Factory::tokenize: the Tokenizer is drained through expand_abbreviation
\* until it is finished or returns an Err (an Err finishes the Tokenizer)
RECURSIVE tokenize(_, _)
tokenize(items, steps) ==
    IF items = <<>> THEN [token_steps |-> steps, error |-> "None"]
    ELSE IF Head(items) = LexError THEN [token_steps |-> steps, error |-> "Some(Token)"]
    ELSE tokenize(Tail(items), expand_abbreviation(steps, Head(items)))

\* Factory::produce, after tokenize: the Result it returns
produce(steps, err) ==
    IF err # "None" \/ steps = <<>>
    THEN Parsed("Err", MkLiteral(NoValue), steps, "UnableToEvaluate")
    ELSE Once(parse_or_expression(steps), LAMBDA expr_ :
         IF expr_.res = "None"
         THEN Parsed("Err", MkLiteral(NoValue), expr_.rest, "InvalidXpath")
         ELSE expr_)

----------------------------------------------------------------------------
(* factory.rs: Document::evaluate, from the items of a query to the values *)
(* of its iterator.  A query is the sequence of what its text lexes to; a  *)
(* LexError stands for text the Tokenizer does not recognise.              *)

\* queries of one operand: numbers, a string, the name A (no element has
\* it), a call of the library and a call outside it
OperandTokens ==
    {<<Tok("Number", "0")>>, <<Tok("Number", "1")>>, <<Tok("Number", "2")>>,
     <<Tok("Literal", "x")>>, <<Tok("NameTest", "A")>>,
     <<Tok("FunctionName", "true"), Tok("LeftParen", ""), Tok("RightParen", "")>>,
     <<Tok("FunctionName", "foo"), Tok("LeftParen", ""), Tok("RightParen", "")>>}

\* parser.rs, the operators of SINGLE_CHAR_TOKENS, DOUBLE_CHAR_TOKENS and
\* NAMED_OPERATORS that stand between two operands
OperatorTokens ==
    {Tok("Operator", o) : o \in {"Or", "And", "Equal", "DoesNotEqual", "Plus", "Minus",
        "LessThan", "LessThanOrEqual", "GreaterThan", "GreaterThanOrEqual"}}

\* the queries without unrecognised text
PlainSources ==
    OperandTokens \cup
    {a \o <<o>> \o b : a \in OperandTokens, o \in OperatorTokens, b \in OperandTokens} \cup
    {a \o <<o1>> \o b \o <<o2>> \o c :
        a \in {<<Tok("Number", "0")>>, <<Tok("Number", "1")>>},
        b \in {<<Tok("Number", "0")>>, <<Tok("Number", "1")>>},
        c \in {<<Tok("Number", "0")>>, <<Tok("Number", "1")>>},
        o1 \in {Tok("Operator", "Or"), Tok("Operator", "And")},
        o2 \in {Tok("Operator", "Or"), Tok("Operator", "And")}} \cup
    {<<Tok("Operator", "Minus")>> \o a : a \in OperandTokens} \cup
    {<<Tok("FunctionName", f), Tok("LeftParen", "")>> \o a \o <<Tok("RightParen", "")>> :
        f \in {"not", "string", "foo"}, a \in OperandTokens} \cup
    {<<Tok("NameTest", "a"), Tok("LeftBracket", "")>> \o a \o <<Tok("RightBracket", "")>> :
        a \in OperandTokens} \cup
    {<<Tok("FunctionName", "not"), Tok("LeftParen", ""), Tok("RightBracket", ""),
       Tok("RightParen", "")>>,
     <<Tok("Operator", "Or"), Tok("Number", "1")>>,
     <<Tok("NameTest", "a"), Tok("Operator", "ForwardSlash")>>,
     <<Tok("Number", "1"), Tok("Operator", "Or")>>,
     <<Tok("FunctionName", "count"), Tok("LeftParen", ""), Tok("RightBracket", ""),
       Tok("RightParen", "")>>,
     <<Tok("FunctionName", "not"), Tok("LeftParen", "")>>,
     <<Tok("FunctionName", "not"), Tok("LeftParen", ""), Tok("FunctionName", "true"),
       Tok("LeftParen", ""), Tok("RightParen", "")>>,
     <<Tok("FunctionName", "not"), Tok("LeftParen", ""), Tok("Number", "1"),
       Tok("Comma", ""), Tok("RightParen", "")>>,
     <<Tok("Number", "1"), Tok("Number", "2")>>,
     <<Tok("Operator", "DoubleForwardSlash"), Tok("NameTest", "a"), Tok("RightBracket", "")>>,
     <<Tok("NameTest", "a"), Tok("Operator", "Pipe"), Tok("NameTest", "a")>>}

\* the queries with unrecognised text at some position
BrokenSources ==
    UNION {{SubSeq(s, 1, k) \o <<LexError>> \o SubSeq(s, k + 1, Len(s)) : k \in 0..Len(s)} :
        s \in {<<Tok("Number", "1"), Tok("Operator", "Plus"), Tok("Number", "2")>>,
               <<Tok("NameTest", "a"), Tok("Operator", "DoubleForwardSlash"),
                 Tok("AtSign", ""), Tok("NameTest", "class")>>}}

InitProduce ==
    /\ mode = "produce"
    /\ doc \in DocsOfSize(1)
    /\ tokenizer \in PlainSources \cup BrokenSources
    /\ token_steps = <<>>
    /\ error = "None"
    /\ drained = <<>>
    /\ produced = "None"
    /\ IdleWalk
    /\ IdleEval

\* Document::evaluate: Factory::new(search, self, self.root).produce()
Produce ==
    /\ mode = "produce"
    /\ produced = "None"
    /\ \E t \in {tokenize(tokenizer, <<>>)} :
       \E r \in {produce(t.token_steps, t.error)} :
          /\ token_steps' = t.token_steps
          /\ error' = t.error
          /\ drained' = IF t.error = "None" THEN tokenizer
                        ELSE SubSeq(tokenizer, 1,
                                (CHOOSE k \in 1..Len(tokenizer) :
                                    /\ tokenizer[k] = LexError
                                    /\ \A j \in 1..(k - 1) : tokenizer[j] # LexError) - 1)
          /\ produced' = IF r.res = "Some" THEN "Ok" ELSE r.err
          /\ IF r.res = "Some"
             THEN /\ mode' = "eval"
                  /\ expr' = r.x
                  /\ est' = NewExprState(r.x)
                  /\ ctxnode' = MkNode("Root", 0)
                  /\ outcome' = OkNone
                  /\ returned' = OkNone
                  /\ UNCHANGED <<polls, yielded, predLog, ended>>
             ELSE UNCHANGED <<mode, evalVars>>
    /\ UNCHANGED <<doc, tokenizer, walkVars>>

NextProduce == Produce \/ ProduceNext

SpecProduce == InitProduce /\ [][NextProduce]_vars

----------------------------------------------------------------------------
(* expressions.rs and functions.rs: the operators and the string and      *)
(* boolean functions, on trees built with their constructors               *)

\* child::A from the context node: no element is named A, so it has no value
MissingPath == MkPath(MkContextNode, <<MkStep("Child", [type |-> "element", name |-> "A"], <<>>)>>)

\* attribute::class and attribute::id from the context node
AttributePath(name) ==
    MkPath(MkContextNode, <<MkStep("Attribute", [type |-> "attribute", name |-> name], <<>>)>>)

\* the operands: numbers and NaN, strings, booleans, nodes, a path without a
\* value and a call that fails
Operands ==
    {MkLiteral(NumV(h)) : h \in {0, 2, 3, 4}} \cup
    {MkLiteral(NaNV), MkLiteral(StrV("")), MkLiteral(StrV("x")), MkLiteral(StrV("false")),
     MkLiteral(StrV("1")),
     MkFunction("true", <<>>), MkFunction("false", <<>>),
     MkContextNode, MissingPath, AttributePath("class"), AttributePath("id"),
     MkFunction("not", <<>>)}

\* concat(1, "-", true())
ConcatExample ==
    MkFunction("concat", <<MkLiteral(NumV(2)), MkLiteral(StrV("-")), MkFunction("true", <<>>)>>)

\* the strings contains() is called with
ContainsStrings == {"", "x", "als", "false"}

OpsExprs ==
    {MkFunction("contains", <<MkLiteral(StrV(l)), MkLiteral(StrV(r))>>) :
        l \in ContainsStrings, r \in ContainsStrings} \cup
    {MkBinary(op, left, right) : op \in BinaryOps, left \in Operands, right \in Operands} \cup
    {MkFunction(f, <<x>>) : f \in {"not", "string", "concat"}, x \in Operands} \cup
    {MkFunction("not", <<MkFunction("not", <<x>>)>>) : x \in Operands} \cup
    {MkFunction("contains", <<left, right>>) : left \in Operands, right \in Operands} \cup
    {ConcatExample}

InitOps ==
    /\ mode = "eval"
    /\ doc \in DocsOfSize(1)
    /\ ctxnode \in DomNodes(doc)
    /\ expr \in OpsExprs
    /\ est = NewExprState(expr)
    /\ polls = 0
    /\ outcome = OkNone
    /\ returned = OkNone
    /\ yielded = <<>>
    /\ predLog = <<>>
    /\ ended = FALSE
    /\ IdleWalk
    /\ IdleTok

SpecOps == InitOps /\ [][NextEvalStep]_vars

----------------------------------------------------------------------------
(* expressions.rs: Union over two paths from the context node *)

UnionSteps == {MkStep(ax, AnyNode, <<>>) : ax \in {"Child", "Descendant", "Parent", "SelfAxis"}}

UnionExprs ==
    {MkUnion(MkPath(MkContextNode, <<l>>), MkPath(MkContextNode, <<r>>)) :
        l \in UnionSteps, r \in UnionSteps}

InitUnion ==
    /\ mode = "eval"
    /\ doc \in EvalDocs
    /\ ctxnode \in DomNodes(doc)
    /\ expr \in UnionExprs
    /\ est = NewExprState(expr)
    /\ polls = 0
    /\ outcome = OkNone
    /\ returned = OkNone
    /\ yielded = <<>>
    /\ predLog = <<>>
    /\ ended = FALSE
    /\ IdleWalk
    /\ IdleTok

SpecUnion == InitUnion /\ [][NextEvalStep]_vars

\* predicates of a step that is entered from several nodes: a path from the
\* candidate, position() and a number
RepeatPredExprs ==
    {SelfElementPath, MkPath(MkContextNode, <<MkStep("Child", AnyNode, <<>>)>>),
     MkFunction("position", <<>>), MkLiteral(NumV(2))}

\* paths of two steps, the second one with a predicate
RepeatExprs ==
    {MkPath(MkContextNode, <<MkStep(ax1, AnyNode, <<>>), MkStep(ax2, AnyNode, <<p>>)>>) :
        ax1 \in {"Child", "Descendant", "SelfAxis"},
        ax2 \in {"Parent", "Child", "SelfAxis", "Ancestor"},
        p \in RepeatPredExprs}

InitRepeat ==
    /\ mode = "eval"
    /\ doc \in EvalDocs
    /\ ctxnode \in DomNodes(doc)
    /\ expr \in RepeatExprs
    /\ est = NewExprState(expr)
    /\ polls = 0
    /\ outcome = OkNone
    /\ returned = OkNone
    /\ yielded = <<>>
    /\ predLog = <<>>
    /\ ended = FALSE
    /\ IdleWalk
    /\ IdleTok

SpecRepeat == InitRepeat /\ [][NextEvalStep]_vars

----------------------------------------------------------------------------
(* Claims about the abbreviation expansion *)

\* what stands for a token of the query in the buffer
Unabbreviated(token) ==
    CASE token.token = "AtSign" -> <<Tok("Axis", "Attribute")>>
      [] token.token = "Operator" /\ token.arg = "DoubleForwardSlash" ->
            <<Tok("Operator", "ForwardSlash"), Tok("Axis", "DescendantOrSelf"),
              Tok("NodeType", "Node"), Tok("Operator", "ForwardSlash")>>
      [] token.token = "Period" -> <<Tok("Axis", "SelfAxis"), Tok("NodeType", "Node")>>
      [] token.token = "ParentNode" -> <<Tok("Axis", "Parent"), Tok("NodeType", "Node")>>
      [] OTHER -> <<token>>

RECURSIVE Flatten(_)
Flatten(ss) == IF ss = <<>> THEN <<>> ELSE Head(ss) \o Flatten(Tail(ss))

\* C10: the buffer is the tokens taken from the tokenizer, in their order,
\* with @ replaced by the attribute axis, // by /, descendant-or-self,
\* node(), /, . by self and node(), .. by parent and node(), and every other
\* token as it is; it holds no AtSign, DoubleForwardSlash, Period or
\* ParentNode.
C10_BufferIsTheExpansion ==
    mode = "tok"
    => /\ token_steps = Flatten([k \in 1..Len(drained) |-> Unabbreviated(drained[k])])
       /\ \A k \in 1..Len(token_steps) :
             /\ token_steps[k].token \notin {"AtSign", "Period", "ParentNode"}
             /\ token_steps[k] # Tok("Operator", "DoubleForwardSlash")

\* C10 happens: the tokenizer is drained and gave a // and an @ among others
C10_AbbreviationsDrained ==
    /\ mode = "tok"
    /\ tokenizer = <<>>
    /\ error = "None"
    /\ Tok("Operator", "DoubleForwardSlash") \in Range(drained)
    /\ Tok("AtSign", "") \in Range(drained)
    /\ Len(drained) = 3

----------------------------------------------------------------------------
(* Claims about the result iterator and the path evaluator *)

YieldedNodes == [k \in 1..Len(yielded) |-> yielded[k].node]

\* C1: the nodes a path yields are in document order and no node is yielded
\* twice, also when two input nodes of a step reach the same node.
C1_PathYieldsOnceInDocumentOrder ==
    (mode = "eval" /\ expr.e = "Path")
    => \A i, j \in 1..Len(yielded) :
          i < j => DocOrderKey(yielded[i].node) < DocOrderKey(yielded[j].node)

\* the part of C1 that does not depend on the order within an axis: no node
\* is yielded twice
C1_PathYieldsNoNodeTwice ==
    (mode = "eval" /\ expr.e = "Path") => NoDup(YieldedNodes)

\* C2: polled again and again, the result iterator of every expression
\* returns None after finitely many values, and once it has returned None
\* every later call returns None.
C2_IteratorEndsAndStaysEnded ==
    /\ <>ended
    /\ [](ended => returned.kind = "None")

\* C3: when next_eval fails inside a next call, that call hands the error to
\* its caller: it does not return None (or a value) in its place.
C3_ErrorsReachTheCaller ==
    (mode = "eval" /\ polls > 0 /\ outcome.kind = "Err") => returned.kind = "Err"

\* the candidates whose evaluations by predicate j of the only step are logged
PassedPredicate(j) ==
    LET Passed(e) == e.pred = j /\ e.passed
        kept == SelectSeq(predLog, Passed)
    IN [k \in 1..Len(kept) |-> kept[k].node]

\* the output of the axis walk and node test of the only step
Walked(from) == find_nodes(doc, from, expr.steps[1].axis, expr.steps[1].node_test)

\* C4: a candidate passes a predicate exactly when the predicate's value is a
\* Number n with position = floor(n), or is not a Number and is true, a
\* non-empty String or a Node; no value, false and "" reject it.  The nodes
\* the step hands on are the candidates that passed its last predicate.
C4_PredicatePassesIffPositionOrTruth ==
    (mode = "eval" /\ expr.e = "Path" /\ polls > 0)
    => /\ \A k \in 1..Len(predLog) :
            LET e == predLog[k]
                v == e.value
            IN e.kind # "Err" =>
                 (e.passed <=>
                    /\ e.kind = "Some"
                    /\ \/ /\ v.type = "Number" /\ ~v.nan
                          /\ 2 * e.position <= v.h /\ v.h < 2 * e.position + 2
                       \/ v.type = "Boolean" /\ v.b
                       \/ v.type = "String" /\ v.s # ""
                       \/ v.type = "Node")
       /\ (Len(expr.steps) = 1 /\ expr.steps[1].predicates # <<>>
              /\ est.some /\ Len(yielded) < MaxPolls)
          => YieldedNodes \o Reverse(est.nodes)
                = PassedPredicate(Len(expr.steps[1].predicates))

\* C4 happens: a candidate at position 1 passed the predicate [1.5]
C4_FractionPassed ==
    /\ mode = "eval"
    /\ \E k \in 1..Len(predLog) :
          /\ predLog[k].value.type = "Number" /\ predLog[k].value.h = 3
          /\ predLog[k].position = 1 /\ predLog[k].passed

\* C5 as stated: every predicate of a step, the later ones too, sees the
\* candidate at its ordinal in the output of the axis walk and node test,
\* with the size of that output.
C5_PositionsFromTheAxisWalk ==
    (mode = "eval" /\ expr.e = "Path" /\ Len(expr.steps) = 1)
    => \A k \in 1..Len(predLog) :
          LET e == predLog[k]
              walked == Walked(e.from)
          IN /\ e.size = Len(walked)
             /\ e.position \in 1..Len(walked)
             /\ walked[e.position] = e.node

\* C5 as the code has it: a predicate sees the candidates that passed the
\* predicates before it (the output of the axis walk and node test for the
\* first), numbered from 1 in that order, with their number as the size.
C5_PositionsAmongSurvivors ==
    (mode = "eval" /\ expr.e = "Path" /\ Len(expr.steps) = 1)
    => \A k \in 1..Len(predLog) :
          LET e == predLog[k]
              reached == IF e.pred = 1 THEN Walked(e.from) ELSE PassedPredicate(e.pred - 1)
          IN /\ e.size = Len(reached)
             /\ e.position \in 1..Len(reached)
             /\ reached[e.position] = e.node

\* C5 happens: a second predicate saw a candidate at another position than
\* its ordinal in the output of the axis walk
C5_Renumbered ==
    /\ mode = "eval"
    /\ expr.e = "Path"
    /\ Len(expr.steps) = 1
    /\ \E k \in 1..Len(predLog) :
          /\ predLog[k].pred = 2
          /\ Walked(predLog[k].from)[predLog[k].position] # predLog[k].node

----------------------------------------------------------------------------
(* Claims about the axis walker *)

ElementEntries(d) == {i \in 1..d.n : DomIsElement(d, i)}

\* proper ancestors of a DOM entry, nearest first
RECURSIVE AncestorIds(_, _)
AncestorIds(d, i) ==
    IF i = 0 THEN <<>> ELSE <<d.parent[i]>> \o AncestorIds(d, d.parent[i])

\* C6: count(/descendant::*) equals the number of element nodes of the tree:
\* when the descendant walk from the root with the test * is over, the number
\* of nodes it emitted is the number of element entries of the document.
C6_DescendantCountsAllElements ==
    (WalkDone /\ axis = "Descendant" /\ start = MkNode("Root", 0)
        /\ test = [type |-> "element", name |-> "*"])
    => Len(emitted) = Cardinality(ElementEntries(doc))

\* C7: every node NodeSearchState::find_next_node reports as Found passes the
\* node test of the step, on every axis.
C7_FoundPassesNodeTest ==
    (mode = "walk" /\ last.called /\ last.res = "Found")
    => NodeTestPasses(doc, test, last.node)

\* C8: the preceding-sibling axis emits the earlier siblings nearest first:
\* the first node emitted is the sibling immediately before the context node
\* and, when the walk is over, the last one is the parent's first child.
C8_PrecedingSiblingNearestFirst ==
    (mode = "walk" /\ axis = "PrecedingSibling" /\ emitted # <<>>)
    => LET sibs == preceding_nodes_from_parent(doc, start)
       IN /\ emitted[1] = Last(sibs)
          /\ WalkDone => Last(emitted) = sibs[1]

\* C9: the ancestor axis with test T emits each ancestor passing T exactly
\* once, from the parent upward to the root, also above an ancestor failing T,
\* and no ancestor is ever emitted a second time.
C9_AncestorEachOnce ==
    (mode = "walk" /\ axis = "Ancestor" /\ start.tag # "Attribute")
    => /\ NoDup(emitted)
       /\ WalkDone =>
            LET up == AncestorIds(doc, start.id)
                Passing(i) == NodeTestPasses(doc, test, FromHandle(doc, i))
            IN [k \in 1..Len(emitted) |-> emitted[k].id] = SelectSeq(up, Passing)

----------------------------------------------------------------------------
(* Claims about the parser and Document::evaluate *)

\* the Literal a Number token of the queries compiles to
NumberLiteral(token) ==
    MkLiteral(CASE token.arg = "0" -> NumV(0) [] token.arg = "1" -> NumV(2)
                [] token.arg = "2" -> NumV(4) [] OTHER -> NumV(3))

\* the query was three numbers with `or` or `and` between them
IsLogicChain(q) ==
    /\ Len(q) = 5
    /\ \A k \in {1, 3, 5} : q[k].token = "Number"
    /\ \A k \in {2, 4} : q[k] \in {Tok("Operator", "Or"), Tok("Operator", "And")}

\* C11: a query A or B and C compiles to Or(A, And(B, C)), A and B or C to
\* Or(And(A, B), C), and a chain A or B or C (A and B and C) to one tree of
\* that operator that holds A, B and C.
C11_OrAndFollowThePrecedenceLadder ==
    (produced # "None" /\ IsLogicChain(drained))
    => LET A == NumberLiteral(drained[1])
           B == NumberLiteral(drained[3])
           C == NumberLiteral(drained[5])
           o1 == drained[2].arg
           o2 == drained[4].arg
       IN /\ produced = "Ok"
          /\ CASE o1 = "Or" /\ o2 = "And" -> expr = MkBinary("Or", A, MkBinary("And", B, C))
               [] o1 = "And" /\ o2 = "Or" -> expr = MkBinary("Or", MkBinary("And", A, B), C)
               [] OTHER -> expr \in {MkBinary(o1, MkBinary(o1, A, B), C),
                                     MkBinary(o1, A, MkBinary(o1, B, C))}

\* the number a Number token of the queries stands for, in halves
NumberOf(token) == NumberLiteral(token).value.h

\* the query was `a op b` for numbers a and b and an arithmetic or comparison
\* operator, or `-a`
IsArithmeticQuery(q) ==
    \/ /\ Len(q) = 3
       /\ q[1].token = "Number" /\ q[3].token = "Number"
       /\ q[2] \in OperatorTokens \ {Tok("Operator", "Or"), Tok("Operator", "And")}
    \/ /\ Len(q) = 2
       /\ q[1] = Tok("Operator", "Minus") /\ q[2].token = "Number"

\* the Number or Boolean of the operation the query writes
ArithmeticOf(q) ==
    IF Len(q) = 2 THEN NumV(0 - NumberOf(q[2]))
    ELSE LET a == NumberOf(q[1])
             b == NumberOf(q[3])
         IN CASE q[2].arg = "Plus" -> NumV(a + b)
              [] q[2].arg = "Minus" -> NumV(a - b)
              [] q[2].arg = "Equal" -> BoolV(a = b)
              [] q[2].arg = "DoesNotEqual" -> BoolV(a # b)
              [] q[2].arg = "LessThan" -> BoolV(a < b)
              [] q[2].arg = "LessThanOrEqual" -> BoolV(a <= b)
              [] q[2].arg = "GreaterThan" -> BoolV(a > b)
              [] q[2].arg = "GreaterThanOrEqual" -> BoolV(a >= b)

\* C12: for numeric literals a and b the queries a + b, a - b, -a, a = b,
\* a != b, a < b, a <= b, a > b and a >= b compile, and the first value of the
\* iterator is the Number or Boolean of that operation.
C12_ArithmeticOfNumericLiterals ==
    (produced # "None" /\ IsArithmeticQuery(drained))
    => /\ produced = "Ok"
       /\ polls >= 1 => /\ Len(yielded) >= 1
                        /\ yielded[1] = ArithmeticOf(drained)

----------------------------------------------------------------------------
(* Claims about the operators and the string and boolean functions *)

\* the context ProduceIter::next evaluates the expression in
TopEval == MkEval(ctxnode, 1, 1)

\* the operator at the top of expr is polled and an operand that is polled
\* yields no value: left does, or left yields a value and right does not
AbsentOperand ==
    /\ expr.e \in BinaryOps
    /\ LET lo == NextEval(doc, expr.args[1], est.ops[1], TopEval).res
           ro == NextEval(doc, expr.args[2], est.ops[2], TopEval).res
       IN \/ lo.kind = "None"
          \/ lo.kind = "Some" /\ ro.kind = "None"

OperandResult(k) == NextEval(doc, expr.args[k], est.ops[k], TopEval).res

\* both operands of the operator at the top of expr yield a value
BothOperands ==
    /\ expr.e \in BinaryOps
    /\ OperandResult(1).kind = "Some"
    /\ OperandResult(2).kind = "Some"

\* C14: `and` and `or` convert the values of their operands to Boolean by
\* the coercion table (a Number is false when 0 or NaN, a String when empty,
\* a Node never) and do not fail; not(not(x)) is the Boolean of x.
C14_BooleanConversionNeverFails ==
    [][ProduceNext =>
        /\ (expr.e \in {"And", "Or"} /\ BothOperands)
           => LET l == as_boolean(OperandResult(1).value)
                  r == as_boolean(OperandResult(2).value)
              IN outcome' = OkSome(BoolV(IF expr.e = "And" THEN l /\ r ELSE l \/ r))
        /\ \A x \in Operands :
              LET value == NextEval(doc, x, NewExprState(x), TopEval).res
              IN (expr = MkFunction("not", <<MkFunction("not", <<x>>)>>) /\ value.kind = "Some")
                 => outcome' = OkSome(BoolV(as_boolean(value.value)))]_vars

\* the text of a Boolean
BooleanText(b) == StrV(IF b THEN "true" ELSE "false")

\* C15: a Boolean becomes the String "true" or "false" on every conversion
\* path: string(b), concat(b), Value::convert_to_string of a Boolean the
\* iterator yielded; and concat(1, "-", true()) is "1-true".
C15_BooleanTextOnEveryPath ==
    polls >= 1 =>
        /\ \A f \in {"true", "false"} :
              LET b == MkFunction(f, <<>>)
              IN /\ expr = MkFunction("string", <<b>>) => outcome = OkSome(BooleanText(f = "true"))
                 /\ expr = MkFunction("concat", <<b>>) => outcome = OkSome(BooleanText(f = "true"))
        /\ expr = ConcatExample => outcome = OkSome(StrV("1-true"))
        /\ (returned.kind = "Some" /\ returned.value.type = "Boolean")
           => convert_to_string(doc, returned.value) = OkSome(BooleanText(returned.value.b))

\* the Number a value converts to by the coercion table: a String is parsed
\* (of the strings here only "1" is a number), a Node goes through its
\* string-value
NumberByTable(d, v) ==
    CASE v.type = "Number" -> v
      [] v.type = "Boolean" -> IF v.b THEN NumV(2) ELSE NumV(0)
      [] v.type = "String" -> IF v.s = "1" THEN NumV(2) ELSE NaNV
      [] OTHER -> LET string_value == get_string_value(d, v.node)
                  IN IF string_value.kind = "Some" /\ string_value.value.s = "1"
                     THEN NumV(2) ELSE NaNV

\* C16: addition, subtraction and the relational operators take a String or
\* a Node operand: they convert it to a Number (a String by parsing, a Node
\* through its string-value) and return the value of the operation on the
\* numbers; they do not fail.
C16_OperatorsConvertStringsAndNodes ==
    [][(/\ ProduceNext
        /\ expr.e \in BinaryOps \ {"Equal", "NotEqual", "And", "Or"}
        /\ BothOperands
        /\ \E k \in {1, 2} : OperandResult(k).value.type \in {"String", "Node"})
       => outcome' = BinaryValue(doc, expr.e, NumberByTable(doc, OperandResult(1).value),
                                 NumberByTable(doc, OperandResult(2).value))]_vars

\* the characters of the strings contains() is called with
Chars(s) ==
    CASE s = "" -> <<>>
      [] s = "x" -> <<"x">>
      [] s = "als" -> <<"a", "l", "s">>
      [] s = "false" -> <<"f", "a", "l", "s", "e">>

\* t occurs in s as a substring
Occurs(t, s) ==
    \E k \in 0..(Len(Chars(s)) - Len(Chars(t))) :
        SubSeq(Chars(s), k + 1, k + Len(Chars(t))) = Chars(t)

\* C17: contains(s, t) on two strings is true exactly when t occurs in s as
\* a substring; the empty t occurs in every s, the empty s included, and the
\* empty s contains only the empty t.
C17_ContainsIsSubstring ==
    \A s \in ContainsStrings, t \in ContainsStrings :
        (polls >= 1 /\ expr = MkFunction("contains", <<MkLiteral(StrV(s)), MkLiteral(StrV(t))>>))
        => outcome = OkSome(BoolV(Occurs(t, s)))

\* C18: two node references are equal exactly when they denote the same node
\* of the document; two attributes of one element are different nodes, and
\* an attribute is a different node from the element that owns it.
C18_NodeEqualityIsIdentity ==
    [][(/\ ProduceNext
        /\ expr.e \in {"Equal", "NotEqual"}
        /\ BothOperands
        /\ \A k \in {1, 2} : OperandResult(k).value.type = "Node")
       => LET same == OperandResult(1).value.node = OperandResult(2).value.node
          IN outcome' = OkSome(BoolV(IF expr.e = "Equal" THEN same ELSE ~same))]_vars

----------------------------------------------------------------------------
(* Claims about the errors of Document::evaluate *)

\* the query calls foo(), which is not in the function library
CallsUnknownFunction(q) ==
    \E k \in 1..Len(q) : q[k].token = "FunctionName" /\ q[k].arg \notin FunctionLibrary

\* what Document::evaluate returned is an Err
ReturnedError == produced \notin {"None", "Ok", "panic", "diverges"}

\* C19: a query that calls a function that is not in the function library
\* does not compile, wherever the call stands (at top level, in a predicate,
\* as an argument of another function): evaluate() returns an error and no
\* iterator.
C19_UnknownFunctionIsAnError ==
    (produced # "None" /\ CallsUnknownFunction(drained))
    => (ReturnedError /\ mode # "eval")

\* the tokenizer could not recognise the text at some position of the query
TokenizerFails == \E k \in 1..Len(tokenizer) : tokenizer[k] = LexError

\* the buffer holds the tokens before the failing position and no others,
\* and nothing was compiled
NothingAfterTheFailure ==
    /\ token_steps = Flatten([k \in 1..Len(drained) |-> Unabbreviated(drained[k])])
    /\ mode # "eval"

\* C20: when the tokenizer fails at some position, Document::evaluate
\* returns the error Token and no other, and no token after the failing
\* position is put in the buffer or parsed.
C20_TokenizerFailureIsTokenError ==
    (produced # "None" /\ TokenizerFails)
    => (produced = "Token" /\ error = "Some(Token)" /\ NothingAfterTheFailure)

----------------------------------------------------------------------------
(* Claims about Union *)

\* the values an expression yields when it is polled from its first call
\* until it has no value, at most n of them
RECURSIVE Drain(_, _, _, _)
Drain(x, st, ev, n) ==
    IF n = 0 THEN <<>>
    ELSE Once(NextEval(doc, x, st, ev), LAMBDA r :
         IF r.res.kind # "Some" THEN <<>>
         ELSE <<r.res.value>> \o Drain(x, r.st, ev, n - 1))

\* the nodes an operand of the union produces in the context of the iterator
ProducedBy(x) == {v.node : v \in Range(Drain(x, NewExprState(x), TopEval, MaxNodes + 1))}

\* C21: a union L | R yields every node L produces and every node R
\* produces, each node once, in document order; all nodes of L, not only
\* the first.
C21_UnionYieldsBothOperands ==
    (mode = "eval" /\ expr.e = "Union" /\ ended)
    => /\ Range(YieldedNodes) = ProducedBy(expr.args[1]) \cup ProducedBy(expr.args[2])
       /\ NoDup(YieldedNodes)
       /\ \A i, j \in 1..Len(yielded) :
             i < j => DocOrderKey(yielded[i].node) < DocOrderKey(yielded[j].node)

----------------------------------------------------------------------------
(* Claims about the expression tree while it is polled *)

\* C22: a call of the result iterator, with the predicate evaluations it
\* makes, writes to no field of the nodes of the expression tree: what
\* Path::new, Step::new, Union::new and Function::new built stays as it is
\* (est holds found_cache and cached_from of the Paths and skip_left of the
\* Unions, expr their other fields).
C22_PollingLeavesTheTreeUnchanged ==
    [][ProduceNext => (expr' = expr /\ est' = est)]_vars

----------------------------------------------------------------------------
(* Claims about the Tokenizer *)

\* the text the next token is read from: what follows the spaces at pos
Remaining ==
    SubSeq(tokenizer.xpath, RunEnd(tokenizer.xpath, tokenizer.pos, {" "}) + 1,
           Len(tokenizer.xpath))

\* a quoted string is next
LiteralAhead == Remaining # <<>> /\ Remaining[1] \in {"\"", "'"}

\* the places of the closing quote: the opening quote character again
ClosingQuotes == {k \in 2..Len(Remaining) : Remaining[k] = Remaining[1]}

\* C23: a quoted string whose closing quote is present lexes to one Literal
\* token whose value is the content between the quotes, whatever the
\* content without the quote character (empty and one character included);
\* a quoted string without closing quote fails with Token.
C23_QuotedStringIsOneLiteral ==
    [][(TokenizerNext /\ LiteralAhead)
       => IF ClosingQuotes # {}
          THEN LET close == CHOOSE k \in ClosingQuotes : \A j \in ClosingQuotes : k <= j
               IN /\ error' = "None"
                  /\ drained' = Append(drained, Tok("Literal", Slice(Remaining, 1, close - 1)))
                  /\ tokenizer'.pos = Len(tokenizer.xpath) - Len(Remaining) + close
          ELSE error' = "Some(Token)" /\ drained' = drained]_vars

\* the end of the identifier [A-Za-z_:][A-Za-z0-9_:-]* the remaining text
\* begins with (0 when it begins with none)
IdentifierEnd ==
    IF Remaining # <<>> /\ Remaining[1] \in (FunctionNameChars \ NumberChars)
    THEN RunEnd(Remaining, 0, FunctionNameChars \cup {"-"})
    ELSE 0

\* a function name is next: an identifier that is no node-type name, with
\* ( right after it
FunctionNameAhead ==
    /\ IdentifierEnd > 0
    /\ IdentifierEnd < Len(Remaining)
    /\ Remaining[IdentifierEnd + 1] = "("
    /\ \A k \in 1..Len(NODE_TYPES) : SubSeq(Remaining, 1, IdentifierEnd) # NODE_TYPES[k].name

\* C24: an identifier that is followed at once by ( and is no node-type
\* name lexes to one FunctionName token that holds the whole identifier,
\* hyphens included.
C24_IdentifierBeforeParenIsFunctionName ==
    [][(TokenizerNext /\ FunctionNameAhead)
       => /\ error' = "None"
          /\ drained' = Append(drained, Tok("FunctionName", Slice(Remaining, 0, IdentifierEnd)))]_vars

\* C25: whatever the query, also one that ends in spaces or is made of
\* spaces only, every next_token call returns a token or the Token error and
\* reads no byte at or past the end of the input, and the position never
\* exceeds the length of the input.
C25_TokenizerStaysInBounds ==
    mode = "lex" => (error \in {"None", "Some(Token)"} /\ tokenizer.pos <= Len(tokenizer.xpath))

----------------------------------------------------------------------------
(* Claims about the end of compilation *)

\* C26: compilation ends for every token sequence, also for an argument
\* list with a token that starts no expression and for one that is not
\* closed: every turn of the argument loop takes a token or ends the loop,
\* so Factory::produce returns.
C26_CompilationTerminates ==
    mode \in {"produce", "eval"} => produced # "diverges"

\* the tokens the parser left in the Stepper when parse_expression returned
Leftover == produce(token_steps, error).rest

\* C27: Document::evaluate succeeds only if the parser took the whole token
\* buffer; a query with tokens after a complete expression is rejected with
\* an error and not evaluated as that expression.
C27_LeftoverTokensAreRejected ==
    produced = "Ok" => Leftover = <<>>

----------------------------------------------------------------------------
(* Claims about the predicates of a step entered from several nodes *)

\* the verdict of the predicate of evaluation e when no candidate was tested
\* before it
FreshVerdict(e) ==
    LET px == expr.steps[e.step].predicates[e.pred]
    IN matches_eval(doc, px, NewExprState(px), MkEval(e.node, e.position, e.size)).passed

\* C28: whether a candidate passes a predicate depends only on the node, its
\* position and the size: the verdict is the one the predicate gives when
\* nothing was tested before, also when the candidate tested just before was
\* the same node or one that compares equal to it.
C28_VerdictIndependentOfEarlierCandidates ==
    (mode = "eval" /\ expr.e = "Path")
    => \A k \in 1..Len(predLog) : predLog[k].passed = FreshVerdict(predLog[k])

----------------------------------------------------------------------------
(* Claims about the lookahead of NodeSearch *)

\* C29: find_and_cache_next_node is a one-element lookahead over
\* find_next_node: its k-th call returns the result of the k-th
\* find_next_node call, and after each call the cache holds the result of
\* the next find_next_node call, is_finished() being true exactly when that
\* result is No.
C29_LookaheadReturnsResultsInOrder ==
    (mode = "cache" /\ handed # <<>>)
    => /\ \A k \in 1..Len(handed) : handed[k] = calls[k]
       /\ Len(calls) = Len(handed) + 1
       /\ cached = calls[Len(handed) + 1]
       /\ NodeSearchIsFinished <=> calls[Len(handed) + 1].res = "No"

----------------------------------------------------------------------------
(* Claims about the variant of the nodes *)

\* the node is tagged with the variant of the DOM entry its handle points to
CarriesItsKind(n) == n.tag = "Attribute" \/ n = FromHandle(doc, n.id)

\* C30: every node the engine produces carries the kind of its underlying
\* DOM entry: the parent of a text node comes back as an Element or the
\* Root, the parent of a child of the document is the Root, and no node
\* tagged Text has children.
C30_NodesCarryTheKindOfTheirEntry ==
    mode = "walk"
    => \A k \in 1..Len(emitted) :
          /\ CarriesItsKind(emitted[k])
          /\ emitted[k].tag = "Text" => DomChildren(doc, emitted[k].id) = <<>>

====
